---- MODULE Spec2Model ----
(***************************************************************************)
(* Background-footage segment cache and allocator of                       *)
(* src/video_generator.py (VideoGenerator), as a state machine.            *)
(*                                                                         *)
(* One pipeline process runs _get_minecraft_parkour_video_asset_id         *)
(* repeatedly against one cache directory and one configured source URL    *)
(* (BACKGROUND_POT_URL).  The file system is the durable state: the cached *)
(* media file and its JSON sidecar.  External collaborators (yt-dlp,       *)
(* ffmpeg, the upload endpoint) are nondeterministic: each may succeed or  *)
(* fail, and a download may deliver a truncated file.  Durations are whole *)
(* seconds.  ffprobe is taken to succeed on every file that exists; it     *)
(* fails when the path is None or the file is absent.  yt-dlp does not     *)
(* overwrite a media file that already exists at its output path (which is *)
(* why lines 1042-1046 remove the file before the re-download): a download *)
(* onto an existing cached file fails or hands that file back.             *)
(*                                                                         *)
(* SpecGen is generate_video_from_trend from create_video to its return,   *)
(* with _ensure_under_duration and the upload step of src/main.py.  The    *)
(* caption and audio steps keep the duration of the video; a successful    *)
(* ffmpeg -t max_duration leaves min(duration, max_duration).              *)
(*                                                                         *)
(* SpecScript is _generate_script_from_trend.  A script is its list of     *)
(* sentences (the pieces re.split(r'[.!?]+') yields) and its last          *)
(* character; a sentence is a stem and a word count.  The text generator   *)
(* gives nothing or any script; the clean-up of lines 2349-2415 is part of *)
(* that choice.  The substring test of line 2586 is membership of the      *)
(* closure sentence in the sentence list.                                  *)
(*                                                                         *)
(* SpecFootage is the footage chain of generate_video_from_trend and       *)
(* create_video; SpecSave and SpecCap are _save_cached_video_info and      *)
(* _ensure_under_duration one file operation at a time, with a crash       *)
(* possible between any two; SpecRace is two pipeline processes on one     *)
(* cache directory; SpecLedger is the used-topics ledger of the fetchers;  *)
(* SpecAlloc is _get_random_unused_segment on any duration and used list.  *)
(***************************************************************************)
EXTENDS Integers, Sequences, FiniteSets, TLC

\* ---------------------------------------------------------------- bounds
MaxRuns == 4
\* Durations the full source may have (grids of 1 and of 3 offsets).
FullDurations == {74, 84}
\* Durations a silently truncated download may have.
TruncatedDurations == {50, 65}

\* ------------------------------------------------------ program constants
SegmentDuration == 59
DefaultProbeDuration == 3600
GridStep == 5
PreferredMinStart == 15
SanityThreshold == 65

\* ------------------------------------------------------------ data values
\* Python's None / Optional: the empty tuple is None, <<x>> is a value x.
None == << >>
Some(x) == << x >>

PotUrl == "BACKGROUND_POT_URL"
\* Paths: the cached media file, the scratch clip, the muted clip, and None.
CachePath == "video_cache/hash.mp4"
ClipPath == "tmp/parkour_segment.mp4"
MutedPath == "tmp/parkour_segment_muted.mp4"
NoPath == "None"

VARIABLES
    runs,            \* pipeline runs started so far
    pc,              \* position inside _get_minecraft_parkour_video_asset_id
    srcDuration,     \* real duration of the remote source
    cacheVideo,      \* file at cache_video_path: None or Some(duration)
    sidecar,         \* <hash>_info.json: None or Some([url, video_path, used_segments])
    cached_info,     \* local: None or Some([path, used_segments])
    used_segments,   \* local list of the cached path
    segment_start,   \* local: None or Some(offset)
    downloaded_path, \* local
    clipped_path,    \* local
    asset_id,        \* value returned by the last run: None or Some(id)
    redownloaded,    \* the re-download of lines 1047-1058 ran in this run
    fetches,         \* calls of _download_youtube_video in this run
    allocHist,       \* offsets returned so far against the current cached file
    lastSaved,       \* used_segments argument of this run's _save_cached_video_info
    gpc,             \* position inside generate_video_from_trend and main
    files,           \* output directory: path -> None or Some(duration in tenths of a second)
    captioned_path,  \* local of generate_video_from_trend
    result_path,     \* value returned by generate_video_from_trend (NoPath for None)
    cap_calls,       \* paths passed to _ensure_under_duration in this run
    cap_log,         \* the last _ensure_under_duration call: None or Some(record)
    uploaded_video,  \* what main handed to the uploader: None or Some([path, file])
    spc,             \* position inside _generate_script_from_trend
    title,           \* trend_data['title']
    description,     \* trend_data['description'], as its list of sentences
    smoking,         \* "smok" or "cig" occurs in the title or the story
    ai_available,    \* AI_AVAILABLE
    story_text,      \* local: the list of sentences of the story text
    sentences,       \* local: the sentences kept by the extractor
    initial_script,  \* local: the script being built (script in the AI stage)
    word_count,      \* local
    draft,           \* the script before trimming or expansion
    via,             \* the return statement taken
    returned,        \* value returned: None or Some(script)
    fpc,             \* position inside the footage chain and create_video
    youtube_ready,   \* self.youtube_service and YT_DLP_AVAILABLE
    background_image_url, \* local of generate_video_from_trend: None or Some(url)
    video_asset_id,  \* local of generate_video_from_trend: None or Some(id)
    video_input,     \* video_input["background"]: the set of backgrounds it holds
    posted,          \* the backgrounds of the requests posted, in order
    error_data,      \* the first response of the video service
    retry_attempt,   \* loop variable of the voice retry
    created_video_id, \* value returned by create_video: None or Some(id)
    escaped,         \* an exception left the footage chain
    save_pc, \* position inside _save_cached_video_info
    info_file, \* <hash>_info.json on disk: None or Some([entry, written])
    previous_file, \* info_file when the save in progress was called
    loaded_segments, \* used_segments of the last _get_cached_video_info
    cap_pc, \* position inside _ensure_under_duration
    cap_files, \* path -> None or Some([duration, complete]), durations in tenths of a second
    original, \* the file at video_path when the call began
    probed_duration, \* local: duration of _ensure_under_duration
    pieces_written, \* pieces of its output ffmpeg has written
    cap_ret, \* value returned (NoPath for None)
    p_pc, \* process -> position inside the cached-segment path
    p_used_segments, \* process -> its local used_segments
    p_segment_start, \* process -> its local segment_start: None or Some(offset)
    shared_duration, \* duration of the cached media file both processes clip
    shared_sidecar, \* used_segments of the one sidecar on disk
    last_saver, \* the process whose save reached the sidecar last (0: none yet)
    lpc, \* the last ledger operation
    ledger_file, \* used_topics.json: [state, topics]
    saves, \* calls of _save_used_topic so far
    saved_title, \* argument of the last _save_used_topic that wrote the file: None or Some(title)
    saved_titles, \* arguments of the saves that wrote the file since it was last cleared
    queried_title, \* argument of the last _is_topic_used
    topic_used, \* value returned by the last _is_topic_used
    alloc_pc, \* before or after the call
    alloc_actual, \* the real duration of the file at video_path
    alloc_probe, \* what ffprobe gave for video_path: None or Some(duration)
    alloc_used, \* the used_segments argument
    alloc_start, \* value returned: None or Some(offset)
    fetch_pc, \* position in fetch_reddit_stories: idle, loop, returned
    module_subreddits, \* the module-level list REDDIT_STORY_SUBREDDITS, as the set of its elements
    subreddit, \* the argument of the running call, None or a name
    own_list, \* the list [subreddit] that a call with an argument builds
    fetch_retry, \* the counter retry of the running call
    found_stories, \* whether the running call returned from the loop with stories
    fetch_calls, \* number of calls started
    pick_pc, \* position in get_reddit_story_for_video: call, returned
    used_topics_file, \* used_topics.json as the call finds it
    fetched, \* the list fetch_reddit_stories returned, in its order
    stories, \* the list after the sort of line 209
    selected_story, \* the story the call returned, or None
    main_pc, \* position in main, or the way the run ended
    dry_run, \* args.dry_run
    skip_video_generation, \* args.skip_video_generation
    trend_data, \* the title of the story get_reddit_story_for_video returned, or None
    upload_result, \* what upload_video returned: a video id or None
    topics_file, \* used_topics.json
    topics_file_before, \* used_topics.json as the run found it
    upload_pc, \* position in _resumable_upload: loop, returned, raised
    upload_retry, \* the counter retry
    chunks_sent, \* next_chunk calls that returned without a response
    last_outcome, \* how the last next_chunk call ended
    upload_return, \* the value returned: a video id or None
    retries_made, \* next_chunk calls made after a call that ended in an error
    wait_pc, \* position in wait_for_video: loop, returned
    wait_timeout, \* timeout after line 1453, in seconds
    wait_elapsed, \* time.time() - start_time, in seconds
    last_response, \* the answer to the last status request
    status_data, \* what the last check_video_status call returned
    polled_at, \* the elapsed time at which the last status check of the loop started, or None
    final_checks, \* status checks made after the loop
    wait_return \* the value returned: a URL or None

\* the variables of the background-clip cache
cacheVars == << runs, pc, srcDuration, cacheVideo, sidecar, cached_info,
                used_segments, segment_start, downloaded_path, clipped_path,
                asset_id, redownloaded, fetches, allocHist, lastSaved >>

\* the variables of generate_video_from_trend
genVars == << gpc, files, captioned_path, result_path, cap_calls, cap_log,
             uploaded_video >>

\* the variables of _generate_script_from_trend
scriptVars == << spc, title, description, smoking, ai_available, story_text,
                sentences, initial_script, word_count, draft, via, returned >>

\* the variables of the footage chain and create_video
footageVars == << fpc, youtube_ready, background_image_url, video_asset_id,
                 video_input, posted, error_data, retry_attempt, created_video_id,
                 escaped >>

\* the variables of one _save_cached_video_info call, write by write
saveVars == << save_pc, info_file, previous_file, loaded_segments >>

\* the variables of one _ensure_under_duration call, step by step
capVars == << cap_pc, cap_files, original, probed_duration, pieces_written,
             cap_ret >>

\* the variables of two pipeline processes on one cache directory
raceVars == << p_pc, p_used_segments, p_segment_start, shared_duration, shared_sidecar, last_saver >>

\* the variables of the used-topics ledger
ledgerVars == << lpc, ledger_file, saves, saved_title, saved_titles,
                queried_title, topic_used >>

\* the variables of one _get_random_unused_segment call
allocVars == << alloc_pc, alloc_actual, alloc_probe, alloc_used, alloc_start >>

\* the variables of fetch_reddit_stories
fetchVars == << fetch_pc, module_subreddits, subreddit, own_list, fetch_retry, found_stories, fetch_calls >>

\* the variables of get_reddit_story_for_video
pickVars == << pick_pc, used_topics_file, fetched, stories, selected_story >>

\* the variables of one run of main
mainVars == << main_pc, dry_run, skip_video_generation, trend_data, upload_result, topics_file, topics_file_before >>

\* the variables of _resumable_upload
uploadVars == << upload_pc, upload_retry, chunks_sent, last_outcome, upload_return, retries_made >>

\* the variables of wait_for_video
waitVars == << wait_pc, wait_timeout, wait_elapsed, last_response, status_data, polled_at, final_checks, wait_return >>

outsideCache == << genVars, scriptVars, footageVars, saveVars, capVars,
        raceVars, ledgerVars, allocVars, fetchVars, pickVars,
        mainVars, uploadVars, waitVars >>
outsideGen == << cacheVars, scriptVars, footageVars, saveVars, capVars,
        raceVars, ledgerVars, allocVars, fetchVars, pickVars,
        mainVars, uploadVars, waitVars >>
outsideScript == << cacheVars, genVars, footageVars, saveVars, capVars,
        raceVars, ledgerVars, allocVars, fetchVars, pickVars,
        mainVars, uploadVars, waitVars >>
outsideFootage == << cacheVars, genVars, scriptVars, saveVars, capVars,
        raceVars, ledgerVars, allocVars, fetchVars, pickVars,
        mainVars, uploadVars, waitVars >>
outsideSave == << cacheVars, genVars, scriptVars, footageVars, capVars,
        raceVars, ledgerVars, allocVars, fetchVars, pickVars,
        mainVars, uploadVars, waitVars >>
outsideCap == << cacheVars, genVars, scriptVars, footageVars, saveVars,
        raceVars, ledgerVars, allocVars, fetchVars, pickVars,
        mainVars, uploadVars, waitVars >>
outsideRace == << cacheVars, genVars, scriptVars, footageVars, saveVars,
        capVars, ledgerVars, allocVars, fetchVars, pickVars,
        mainVars, uploadVars, waitVars >>
outsideLedger == << cacheVars, genVars, scriptVars, footageVars, saveVars,
        capVars, raceVars, allocVars, fetchVars, pickVars,
        mainVars, uploadVars, waitVars >>
outsideAlloc == << cacheVars, genVars, scriptVars, footageVars, saveVars,
        capVars, raceVars, ledgerVars, fetchVars, pickVars,
        mainVars, uploadVars, waitVars >>
outsideFetch == << cacheVars, genVars, scriptVars, footageVars, saveVars,
        capVars, raceVars, ledgerVars, allocVars, pickVars,
        mainVars, uploadVars, waitVars >>
outsidePick == << cacheVars, genVars, scriptVars, footageVars, saveVars,
        capVars, raceVars, ledgerVars, allocVars, fetchVars,
        mainVars, uploadVars, waitVars >>
outsideMain == << cacheVars, genVars, scriptVars, footageVars, saveVars,
        capVars, raceVars, ledgerVars, allocVars, fetchVars,
        pickVars, uploadVars, waitVars >>
outsideUpload == << cacheVars, genVars, scriptVars, footageVars, saveVars,
        capVars, raceVars, ledgerVars, allocVars, fetchVars,
        pickVars, mainVars, waitVars >>
outsideWait == << cacheVars, genVars, scriptVars, footageVars, saveVars,
        capVars, raceVars, ledgerVars, allocVars, fetchVars,
        pickVars, mainVars, uploadVars >>

vars == << cacheVars, genVars, scriptVars, footageVars, saveVars,
        capVars, raceVars, ledgerVars, allocVars, fetchVars,
        pickVars, mainVars, uploadVars, waitVars >>

locals == << cached_info, used_segments, segment_start, downloaded_path,
             clipped_path, redownloaded, fetches >>

\* --------------------------------------------------------------- helpers
Max(a, b) == IF a >= b THEN a ELSE b

UsedSet(list) == { list[i] : i \in DOMAIN list }

RECURSIVE SortedList(_)
SortedList(S) ==
    IF S = {} THEN << >>
    ELSE LET m == CHOOSE x \in S : \A y \in S : x <= y
         IN  << m >> \o SortedList(S \ {m})

\* os.path.exists(path) for the paths the cache code tests.
PathExists(path, video) == path = CachePath /\ video # None

\* ffprobe + float(): Some(duration), or None when it raises.
Probe(path, video) ==
    IF path = CachePath /\ video # None THEN video ELSE None

\* Mutant: the load keyed on the sidecar instead of the media file.
GetCachedVideoInfoBySidecar(video, sc) ==
    IF sc # None
    THEN Some([path |-> CachePath, used_segments |-> sc[1].used_segments])
    ELSE None

\* _get_cached_video_info
GetCachedVideoInfo(video, sc) ==
    IF video # None
    THEN Some([path |-> CachePath,
               used_segments |-> IF sc # None THEN sc[1].used_segments ELSE << >>])
    ELSE None

\* Mutant: the save writes the newest offset only (a delta).
SaveCachedVideoInfoDelta(video_path, used) ==
    Some([url |-> PotUrl, video_path |-> video_path,
          used_segments |-> IF used = << >> THEN << >> ELSE << used[Len(used)] >>])

\* _save_cached_video_info: the sidecar content it writes.
SaveCachedVideoInfo(video_path, used) ==
    Some([url |-> PotUrl, video_path |-> video_path, used_segments |-> used])

\* Mutant: the window not shortened by the segment.
MaxStartWholeSource(duration) == Max(0, duration)

\* _get_random_unused_segment, lines 829-842
MaxStart(duration) == Max(0, duration - SegmentDuration)

\* Mutant: the grid anchored at 0.
MinStartZero(max_start) == 0

\* Mutant: the non-zero start one grid step late.
MinStartLate(max_start) ==
    IF max_start >= PreferredMinStart + GridStep THEN PreferredMinStart ELSE 0

MinStart(max_start) == IF max_start >= PreferredMinStart THEN PreferredMinStart ELSE 0

AllStarts(max_start) ==
    LET min_start == MinStart(max_start)
        r == { s \in min_start..max_start : (s - min_start) % GridStep = 0 }
    IN  IF r = {} THEN {0} ELSE r

\* Mutant: the docstring's "or 0 if all segments used".
ExhaustedChoiceZero(all_starts) == {0}

\* What random.choice(all_starts) may return once nothing is unused.
ExhaustedChoice(all_starts) == all_starts

\* _get_random_unused_segment: the set of values it may return.
GetRandomUnusedSegment(probe, used) ==
    LET duration == IF probe = None THEN DefaultProbeDuration ELSE probe[1]
        max_start == MaxStart(duration)
        all_starts == AllStarts(max_start)
        unused == all_starts \ UsedSet(used)
    IN  IF max_start <= 0 THEN {0}
        ELSE IF unused # {} THEN unused
        ELSE ExhaustedChoice(all_starts)

\* The grid of a cached file of the given duration (K = its cardinality).
Grid(duration) ==
    IF MaxStart(duration) <= 0 THEN {0} ELSE AllStarts(MaxStart(duration))

\* What a call of _download_youtube_video may leave at the cache path: nothing
\* (it returns None), the full source, or a truncated file; a file already
\* there is kept.
DownloadOutcomes(existing) ==
    IF existing # None THEN {None, existing}
    ELSE {None} \cup { Some(d) : d \in TruncatedDurations \cup {srcDuration} }

\* ------------------------------------------- the final video and its cap
\* Durations of the final video are counted in tenths of a second, so that
\* the 0.2 s tolerance of the cap is a whole number.
MaxDuration == 59
CapTolerance == 2
RenderedDurations == {300, 550, 590, 592, 593, 600, 640, 900}

OutputPath == "output/video.mp4"
CaptionedPath == "output/video_captioned.mp4"
AudioPath == "output/video_captioned_with_audio.mp4"
CappedPath == "output/video_capped.mp4"
GenPaths == {OutputPath, CaptionedPath, AudioPath, CappedPath}

NoFiles == [p \in GenPaths |-> None]

\* generate_video_from_trend is not running
GenIdle ==
    /\ gpc = "gen_idle"
    /\ files = NoFiles
    /\ captioned_path = NoPath
    /\ result_path = NoPath
    /\ cap_calls = {}
    /\ cap_log = None
    /\ uploaded_video = None

\* ------------------------------------------------------- the script text
\* A sentence is the first n words of the word stream named by its stem, so
\* two sentences of the same stem share their leading words and a sentence
\* is identified by stem and length.  A script is a list of sentences and
\* the character it ends with ("" when it ends with no '.', '!' or '?').
Text(stem, n) == [stem |-> stem, n |-> n]
Script(sents, end) == [sents |-> sents, end |-> end]
EmptyScript == Script(<< >>, "")

MinWords == 140
MaxWords == 175
TargetWords == 160
ClosingReserve == 18
HookMaxWords == 18
TitleMaxWords == 30
HeadWords == 5
OpeningCount == 5
MiddleCount == 10

GenericText == Text("I have a story to share that will shock you", 10)

\* The two template banks: filler sentences, then the closure sentence.
SmokingClosure == Text("Now when he offers", 12)
SmokingBank ==
    << Text("Every time we hung out", 14), Text("I kept saying no", 15),
       Text("It wasn't the cigarette", 19), Text("I could feel that old craving", 16),
       Text("When I finally told him", 13), Text("After that, he showed up", 19),
       SmokingClosure >>
GeneralClosure == Text("In the end, it was resolved", 17)
GeneralBank ==
    << Text("At first, I tried to brush it off", 12), Text("The more I thought about it", 11),
       Text("I didn't want drama", 9), Text("When I finally spoke up", 9),
       Text("Afterward, I realized", 8), GeneralClosure >>

\* _generate_script_from_trend is not running
ScriptIdle ==
    /\ spc = "script_idle"
    /\ title = [kind |-> "empty", stem |-> "", n |-> 0,
                first_person |-> FALSE, filler |-> FALSE]
    /\ description = << >>
    /\ smoking = FALSE
    /\ ai_available = FALSE
    /\ story_text = << >>
    /\ sentences = << >>
    /\ initial_script = EmptyScript
    /\ word_count = 0
    /\ draft = EmptyScript
    /\ via = "none"
    /\ returned = None

\* ------------------------------------------------- footage chain data
\* max_voice_retries of create_video
MaxVoiceRetries == 3

\* A response of the video service (or requests.post raising, status 0):
\* the status code, whether a video id is in the body, and what the error
\* message of a 400 names.
NoResponse == [status |-> 0, has_id |-> FALSE, voice |-> FALSE, video_bg |-> FALSE]
Responses ==
    { [status |-> 200, has_id |-> h, voice |-> FALSE, video_bg |-> FALSE] :
        h \in BOOLEAN }
    \cup { [status |-> 400, has_id |-> FALSE, voice |-> v, video_bg |-> b] :
             v \in BOOLEAN, b \in BOOLEAN }
    \cup { [status |-> 500, has_id |-> FALSE, voice |-> FALSE, video_bg |-> FALSE],
           NoResponse }

FootageIdle ==
    /\ fpc = "footage_idle"
    /\ youtube_ready = FALSE
    /\ background_image_url = None
    /\ video_asset_id = None
    /\ video_input = {}
    /\ posted = << >>
    /\ error_data = NoResponse
    /\ retry_attempt = 0
    /\ created_video_id = None
    /\ escaped = FALSE

SaveIdle ==
    /\ save_pc = "save_idle"
    /\ info_file = None
    /\ previous_file = None
    /\ loaded_segments = << >>

CapIdle ==
    /\ cap_pc = "cap_idle"
    /\ cap_files = [p \in {OutputPath, CappedPath} |-> None]
    /\ original = None
    /\ probed_duration = 0
    /\ pieces_written = 0
    /\ cap_ret = NoPath

\* The pipeline processes started against one cache directory.
Procs == {1, 2}

RaceIdle ==
    /\ p_pc = [p \in Procs |-> "race_idle"]
    /\ p_used_segments = [p \in Procs |-> << >>]
    /\ p_segment_start = [p \in Procs |-> None]
    /\ shared_duration = 0
    /\ shared_sidecar = << >>
    /\ last_saver = 0

\* used_topics.json is absent
NoLedger == [state |-> "absent", topics |-> {}]

LedgerIdle ==
    /\ lpc = "ledger_idle"
    /\ ledger_file = NoLedger
    /\ saves = 0
    /\ saved_title = None
    /\ saved_titles = {}
    /\ queried_title = << >>
    /\ topic_used = FALSE

AllocIdle ==
    /\ alloc_pc = "alloc_idle"
    /\ alloc_actual = 0
    /\ alloc_probe = None
    /\ alloc_used = << >>
    /\ alloc_start = None

FetchIdle ==
    /\ fetch_pc = "idle"
    /\ module_subreddits = {}
    /\ subreddit = << >>
    /\ own_list = {}
    /\ fetch_retry = 0
    /\ found_stories = FALSE
    /\ fetch_calls = 0

PickIdle ==
    /\ pick_pc = "pick_idle"
    /\ used_topics_file = NoLedger
    /\ fetched = << >>
    /\ stories = << >>
    /\ selected_story = << >>

MainIdle ==
    /\ main_pc = "main_idle"
    /\ dry_run = FALSE
    /\ skip_video_generation = FALSE
    /\ trend_data = << >>
    /\ upload_result = << >>
    /\ topics_file = NoLedger
    /\ topics_file_before = NoLedger

NoOutcome == [kind |-> "none", status |-> 0]

UploadIdle ==
    /\ upload_pc = "upload_idle"
    /\ upload_retry = 0
    /\ chunks_sent = 0
    /\ last_outcome = NoOutcome
    /\ upload_return = << >>
    /\ retries_made = 0

NoCheck == [code |-> 0, status |-> "", has_url |-> FALSE]

NoStatusData == [status |-> "", has_url |-> FALSE]

WaitIdle ==
    /\ wait_pc = "wait_idle"
    /\ wait_timeout = 0
    /\ wait_elapsed = 0
    /\ last_response = NoCheck
    /\ status_data = NoStatusData
    /\ polled_at = << >>
    /\ final_checks = 0
    /\ wait_return = << >>

OutsideCacheIdle ==
    /\ GenIdle /\ ScriptIdle /\ FootageIdle /\ SaveIdle
    /\ CapIdle /\ RaceIdle /\ LedgerIdle /\ AllocIdle
    /\ FetchIdle /\ PickIdle /\ MainIdle /\ UploadIdle
    /\ WaitIdle

\* ------------------------------------------------------------------ Init
InitLocals ==
    /\ cached_info = None
    /\ used_segments = << >>
    /\ segment_start = None
    /\ downloaded_path = NoPath
    /\ clipped_path = NoPath
    /\ redownloaded = FALSE
    /\ fetches = 0

Init ==
    /\ runs = 0
    /\ pc = "idle"
    /\ srcDuration \in FullDurations
    /\ cacheVideo = None
    /\ sidecar = None
    /\ InitLocals
    /\ asset_id = None
    /\ allocHist = << >>
    /\ lastSaved = << >>
    /\ OutsideCacheIdle

\* --------------------------------------------------------------- actions
\* return None / return asset_id
Return(value) ==
    /\ pc' = "done"
    /\ asset_id' = value

\* Lines 868-925: availability checks, the scan of the cache directory, the
\* choice between the cached path and the download path.
StartRun ==
    /\ pc \in {"idle", "done"}
    /\ runs < MaxRuns
    /\ runs' = runs + 1
    /\ used_segments' = << >>
    /\ segment_start' = None
    /\ downloaded_path' = NoPath
    /\ clipped_path' = NoPath
    /\ redownloaded' = FALSE
    /\ fetches' = 0
    /\ lastSaved' = << >>
    /\ UNCHANGED << srcDuration, cacheVideo, sidecar, allocHist >>
    /\ \E available \in BOOLEAN :
        IF ~available
        THEN /\ Return(None)
             /\ cached_info' = None
        ELSE LET \* os.path.exists(None) raises and the entry is skipped
                 cached_videos ==
                     IF /\ sidecar # None
                        /\ sidecar[1].url = PotUrl
                        /\ sidecar[1].video_path # NoPath
                        /\ PathExists(sidecar[1].video_path, cacheVideo)
                     THEN { [path |-> sidecar[1].video_path,
                             used_segments |-> sidecar[1].used_segments] }
                     ELSE {}
                 reloaded == GetCachedVideoInfo(cacheVideo, sidecar)
                 info == IF cached_videos # {} /\ reloaded = None
                         THEN Some(CHOOSE c \in cached_videos : TRUE)
                         ELSE reloaded
             IN  /\ cached_info' = info
                 /\ asset_id' = None
                 /\ pc' = IF info # None /\ PathExists(info[1].path, cacheVideo)
                          THEN "cached_select"
                          ELSE IF info = None THEN "download" ELSE "done"
    /\ UNCHANGED outsideCache

\* Lines 930-946: reload the sidecar and pick a segment of the cached file.
CachedSelect ==
    /\ pc = "cached_select"
    /\ LET info == GetCachedVideoInfo(cacheVideo, sidecar)
       IN  IF info = None
           THEN /\ cached_info' = None
                /\ pc' = "download"
                /\ UNCHANGED << used_segments, segment_start, allocHist >>
           ELSE /\ cached_info' = info
                /\ used_segments' = info[1].used_segments
                /\ \E s \in GetRandomUnusedSegment(Probe(info[1].path, cacheVideo),
                                                   info[1].used_segments) :
                     /\ segment_start' = Some(s)
                     /\ allocHist' = Append(allocHist, s)
                /\ pc' = "cached_trim"
    /\ UNCHANGED << runs, srcDuration, cacheVideo, sidecar, downloaded_path,
                    clipped_path, asset_id, redownloaded, fetches, lastSaved >>
    /\ UNCHANGED outsideCache

\* Lines 948-961: clip the segment; a failed clip falls through to the download.
CachedTrim ==
    /\ pc = "cached_trim"
    /\ \E clipped \in BOOLEAN :
        IF clipped
        THEN /\ clipped_path' = ClipPath
             /\ pc' = "cached_save"
             /\ UNCHANGED cached_info
        ELSE /\ cached_info' = None
             /\ pc' = "download"
             /\ UNCHANGED clipped_path
    /\ UNCHANGED << runs, srcDuration, cacheVideo, sidecar, used_segments,
                    segment_start, downloaded_path, asset_id, redownloaded,
                    fetches, allocHist, lastSaved >>
    /\ UNCHANGED outsideCache

\* Lines 963-976: mark the segment used, sort, deduplicate, save the sidecar.
CachedSave ==
    /\ pc = "cached_save"
    /\ LET s == segment_start[1]
           appended == IF s \notin UsedSet(used_segments)
                       THEN Append(used_segments, s) ELSE used_segments
           sorted == SortedList(UsedSet(appended))
       IN  /\ used_segments' = sorted
           /\ sidecar' = SaveCachedVideoInfo(cached_info[1].path, sorted)
           /\ lastSaved' = sorted
    /\ pc' = "cached_mute"
    /\ UNCHANGED << runs, srcDuration, cacheVideo, cached_info, segment_start,
                    downloaded_path, clipped_path, asset_id, redownloaded,
                    fetches, allocHist >>
    /\ UNCHANGED outsideCache

\* Lines 978-987: mute; on failure the unmuted clip is used.
CachedMute ==
    /\ pc = "cached_mute"
    /\ \E muted_video \in BOOLEAN :
        downloaded_path' = IF muted_video THEN MutedPath ELSE clipped_path
    /\ pc' = "cached_upload"
    /\ UNCHANGED << runs, srcDuration, cacheVideo, sidecar, cached_info,
                    used_segments, segment_start, clipped_path, asset_id,
                    redownloaded, fetches, allocHist, lastSaved >>
    /\ UNCHANGED outsideCache

\* Lines 989-1003: upload, remove the scratch files, return.
CachedUpload ==
    /\ pc = "cached_upload"
    /\ \E uploaded \in BOOLEAN :
        Return(IF uploaded THEN Some("asset") ELSE None)
    /\ UNCHANGED << runs, srcDuration, cacheVideo, sidecar, locals, allocHist,
                    lastSaved >>
    /\ UNCHANGED outsideCache

\* Lines 1005-1023: download the full source to the cache path.
Download ==
    /\ pc = "download"
    /\ fetches' = fetches + 1
    /\ \E out \in DownloadOutcomes(cacheVideo) :
        IF out = None
        THEN /\ Return(None)
             /\ UNCHANGED << cacheVideo, downloaded_path, allocHist >>
        ELSE /\ cacheVideo' = out
             /\ downloaded_path' = CachePath
             /\ allocHist' = IF out = cacheVideo THEN allocHist ELSE << >>
             /\ pc' = "verify"
             /\ UNCHANGED asset_id
    /\ UNCHANGED << runs, srcDuration, sidecar, cached_info, used_segments,
                    segment_start, clipped_path, redownloaded, lastSaved >>
    /\ UNCHANGED outsideCache

\* Lines 1025-1046: probe the download; a file of at most 65 s is removed
\* together with the sidecar.
Verify ==
    /\ pc = "verify"
    /\ IF cacheVideo[1] <= SanityThreshold
       THEN /\ cacheVideo' = None
            /\ sidecar' = None
            /\ allocHist' = << >>
            /\ pc' = "redownload"
       ELSE /\ pc' = "fresh_select"
            /\ UNCHANGED << cacheVideo, sidecar, allocHist >>
    /\ UNCHANGED << runs, srcDuration, locals, asset_id, lastSaved >>
    /\ UNCHANGED outsideCache

\* Lines 1047-1060: the single re-download; its result is not checked again.
Redownload ==
    /\ pc = "redownload"
    /\ redownloaded' = TRUE
    /\ fetches' = fetches + 1
    /\ \E out \in DownloadOutcomes(cacheVideo) :
        /\ cacheVideo' = out
        /\ downloaded_path' = IF out = None THEN NoPath ELSE CachePath
    /\ pc' = "fresh_select"
    /\ UNCHANGED << runs, srcDuration, sidecar, cached_info, used_segments,
                    segment_start, clipped_path, asset_id, allocHist, lastSaved >>
    /\ UNCHANGED outsideCache

\* Lines 1062-1082: pick a segment of the downloaded file with used_segments=[].
FreshSelect ==
    /\ pc = "fresh_select"
    /\ \E s \in GetRandomUnusedSegment(Probe(downloaded_path, cacheVideo), << >>) :
        /\ segment_start' = Some(s)
        /\ allocHist' = IF cacheVideo # None THEN Append(allocHist, s) ELSE allocHist
    /\ pc' = "fresh_save"
    /\ UNCHANGED << runs, srcDuration, cacheVideo, sidecar, cached_info,
                    used_segments, downloaded_path, clipped_path, asset_id,
                    redownloaded, fetches, lastSaved >>
    /\ UNCHANGED outsideCache

\* Lines 1084-1085: save the sidecar with exactly the new offset.
FreshSave ==
    /\ pc = "fresh_save"
    /\ sidecar' = SaveCachedVideoInfo(downloaded_path, << segment_start[1] >>)
    /\ lastSaved' = << segment_start[1] >>
    /\ pc' = "fresh_trim"
    /\ UNCHANGED << runs, srcDuration, cacheVideo, locals, asset_id, allocHist >>
    /\ UNCHANGED outsideCache

\* Lines 1087-1100: clip; on failure the full file stands in for the clip.
\* _trim_video(None, ...) returns None (it catches the TypeError).
FreshTrim ==
    /\ pc = "fresh_trim"
    /\ \E ok \in BOOLEAN :
        LET clipped == ok /\ downloaded_path # NoPath
        IN  clipped_path' = IF clipped THEN ClipPath ELSE downloaded_path
    /\ pc' = "fresh_mute"
    /\ UNCHANGED << runs, srcDuration, cacheVideo, sidecar, cached_info,
                    used_segments, segment_start, downloaded_path, asset_id,
                    redownloaded, fetches, allocHist, lastSaved >>
    /\ UNCHANGED outsideCache

\* Lines 1102-1111: mute.  clipped_path.replace on None raises, and the
\* handler of lines 1127-1131 returns None.
FreshMute ==
    /\ pc = "fresh_mute"
    /\ IF clipped_path = NoPath
       THEN /\ Return(None)
            /\ UNCHANGED downloaded_path
       ELSE /\ \E muted_video \in BOOLEAN :
                 downloaded_path' = IF muted_video THEN MutedPath ELSE clipped_path
            /\ pc' = "fresh_upload"
            /\ UNCHANGED asset_id
    /\ UNCHANGED << runs, srcDuration, cacheVideo, sidecar, cached_info,
                    used_segments, segment_start, clipped_path, redownloaded,
                    fetches, allocHist, lastSaved >>
    /\ UNCHANGED outsideCache

\* Lines 1113-1125: upload, remove the scratch files (never the cache file).
FreshUpload ==
    /\ pc = "fresh_upload"
    /\ \E uploaded \in BOOLEAN :
        Return(IF uploaded THEN Some("asset") ELSE None)
    /\ UNCHANGED << runs, srcDuration, cacheVideo, sidecar, locals, allocHist,
                    lastSaved >>
    /\ UNCHANGED outsideCache

Next ==
    \/ StartRun
    \/ CachedSelect
    \/ CachedTrim
    \/ CachedSave
    \/ CachedMute
    \/ CachedUpload
    \/ Download
    \/ Verify
    \/ Redownload
    \/ FreshSelect
    \/ FreshSave
    \/ FreshTrim
    \/ FreshMute
    \/ FreshUpload

Spec == Init /\ [][Next]_vars

\* ---------------------------------------------- the first run, fresh cache
\* The scenario of an empty cache directory and a source of 600 s: the first
\* run only, which can take none of the cached-path steps.
InitFresh ==
    /\ runs = 0
    /\ pc = "idle"
    /\ srcDuration = 600
    /\ cacheVideo = None
    /\ sidecar = None
    /\ InitLocals
    /\ asset_id = None
    /\ allocHist = << >>
    /\ lastSaved = << >>
    /\ OutsideCacheIdle

StartFirstRun ==
    /\ runs = 0
    /\ StartRun

NextFresh ==
    \/ StartFirstRun
    \/ Download
    \/ Verify
    \/ Redownload
    \/ FreshSelect
    \/ FreshSave
    \/ FreshTrim
    \/ FreshMute
    \/ FreshUpload

SpecFresh == InitFresh /\ [][NextFresh]_vars

\* ------------------------------------------- the cache store, called alone
\* _save_cached_video_info and _get_cached_video_info called with arbitrary
\* offset lists (unsorted, with duplicates), the media file present or absent.
MaxListLen == 3
StoreOffsets == {0, 15, 20}
OffsetLists == UNION { [1..k -> StoreOffsets] : k \in 0..MaxListLen }

InitStore ==
    /\ runs = 0
    /\ pc = "store_idle"
    /\ srcDuration \in FullDurations
    /\ cacheVideo \in {None, Some(srcDuration)}
    /\ sidecar = None
    /\ InitLocals
    /\ asset_id = None
    /\ allocHist = << >>
    /\ lastSaved = << >>
    /\ OutsideCacheIdle

SaveCall ==
    /\ pc \in {"store_idle", "loaded"}
    /\ \E list \in OffsetLists :
        /\ sidecar' = SaveCachedVideoInfo(CachePath, list)
        /\ lastSaved' = list
    /\ pc' = "saved"
    /\ UNCHANGED << runs, srcDuration, cacheVideo, locals, asset_id, allocHist >>
    /\ UNCHANGED outsideCache

LoadCall ==
    /\ pc = "saved"
    /\ cached_info' = GetCachedVideoInfo(cacheVideo, sidecar)
    /\ pc' = "loaded"
    /\ UNCHANGED << runs, srcDuration, cacheVideo, sidecar, used_segments,
                    segment_start, downloaded_path, clipped_path, asset_id,
                    redownloaded, fetches, allocHist, lastSaved >>
    /\ UNCHANGED outsideCache

NextStore ==
    \/ SaveCall
    \/ LoadCall

SpecStore == InitStore /\ [][NextStore]_vars

\* ------------------------------ generate_video_from_trend and the hard cap
Min(a, b) == IF a <= b THEN a ELSE b

\* What ffprobe can report for a file: its duration, nothing (an ffprobe
\* error leaves stdout empty and float("" or 0) is 0), or an exception
\* (timeout, unparsable output), written None.
ProbeOutcomes(file) == {None, Some(0), Some(file[1])}

EncodeOutcomes == {"ok", "ffmpeg_failed", "replace_failed"}

\* _ensure_under_duration without the 0.2 s tolerance
EnsureUnderDurationStrict(fs, video_path, max_duration, probe, encode) ==
    IF fs[video_path] = None \/ probe = None
    THEN [fs |-> fs, ret |-> NoPath, reencoded |-> FALSE]
    ELSE IF probe[1] <= max_duration * 10
    THEN [fs |-> fs, ret |-> video_path, reencoded |-> FALSE]
    ELSE LET cut == Some(Min(fs[video_path][1], max_duration * 10))
         IN  CASE encode = "ok" ->
                    [fs |-> [fs EXCEPT ![video_path] = cut, ![CappedPath] = None],
                     ret |-> video_path, reencoded |-> TRUE]
               [] encode = "replace_failed" ->
                    [fs |-> [fs EXCEPT ![CappedPath] = cut],
                     ret |-> NoPath, reencoded |-> TRUE]
               [] OTHER ->
                    [fs |-> fs, ret |-> NoPath, reencoded |-> FALSE]

\* _ensure_under_duration(video_path, max_duration): the file system after
\* the call, the value returned and whether ffmpeg wrote a re-encoded file.
EnsureUnderDuration(fs, video_path, max_duration, probe, encode) ==
    IF fs[video_path] = None \/ probe = None
    THEN [fs |-> fs, ret |-> NoPath, reencoded |-> FALSE]
    ELSE IF probe[1] <= max_duration * 10 + CapTolerance
    THEN [fs |-> fs, ret |-> video_path, reencoded |-> FALSE]
    ELSE LET cut == Some(Min(fs[video_path][1], max_duration * 10))
         IN  CASE encode = "ok" ->
                    [fs |-> [fs EXCEPT ![video_path] = cut, ![CappedPath] = None],
                     ret |-> video_path, reencoded |-> TRUE]
               [] encode = "replace_failed" ->
                    [fs |-> [fs EXCEPT ![CappedPath] = cut],
                     ret |-> NoPath, reencoded |-> TRUE]
               [] OTHER ->
                    [fs |-> fs, ret |-> NoPath, reencoded |-> FALSE]

\* return <path> / return None of generate_video_from_trend
GenReturn(path) ==
    /\ gpc' = "returned"
    /\ result_path' = path

\* _get_minecraft_parkour_video_asset_id is not running
CacheIdle ==
    /\ runs = 0
    /\ pc = "off"
    /\ srcDuration = 0
    /\ cacheVideo = None
    /\ sidecar = None
    /\ InitLocals
    /\ asset_id = None
    /\ allocHist = << >>
    /\ lastSaved = << >>

OutsideGenIdle ==
    /\ CacheIdle /\ ScriptIdle /\ FootageIdle /\ SaveIdle
    /\ CapIdle /\ RaceIdle /\ LedgerIdle /\ AllocIdle
    /\ FetchIdle /\ PickIdle /\ MainIdle /\ UploadIdle
    /\ WaitIdle

InitGen ==
    /\ OutsideGenIdle
    /\ gpc = "create"
    /\ files = NoFiles
    /\ captioned_path = NoPath
    /\ result_path = NoPath
    /\ cap_calls = {}
    /\ cap_log = None
    /\ uploaded_video = None

\* Lines 1625-1631: create_video.
CreateVideo ==
    /\ gpc = "create"
    /\ \E video_id \in BOOLEAN :
        IF video_id
        THEN gpc' = "wait" /\ UNCHANGED result_path
        ELSE GenReturn(NoPath)
    /\ UNCHANGED << files, captioned_path, cap_calls, cap_log, uploaded_video >>
    /\ UNCHANGED outsideGen

\* Lines 1633-1637: wait_for_video.
WaitForVideo ==
    /\ gpc = "wait"
    /\ \E video_url \in BOOLEAN :
        IF video_url
        THEN gpc' = "download" /\ UNCHANGED result_path
        ELSE GenReturn(NoPath)
    /\ UNCHANGED << files, captioned_path, cap_calls, cap_log, uploaded_video >>
    /\ UNCHANGED outsideGen

\* Lines 1640 and 1678: download_video writes the rendered video to
\* output_path, or fails and generate_video_from_trend returns None.
DownloadVideo ==
    /\ gpc = "download"
    /\ \/ \E d \in RenderedDurations :
            /\ files' = [files EXCEPT ![OutputPath] = Some(d)]
            /\ gpc' = "captions"
            /\ UNCHANGED result_path
       \/ /\ GenReturn(NoPath)
          /\ UNCHANGED files
    /\ UNCHANGED << captioned_path, cap_calls, cap_log, uploaded_video >>
    /\ UNCHANGED outsideGen

\* Lines 1646-1651 and 1674-1676: the caption script writes the captioned
\* copy, or fails and output_path is returned as it is.
AddCaptions ==
    /\ gpc = "captions"
    /\ \E captioned \in BOOLEAN :
        IF captioned
        THEN /\ files' = [files EXCEPT ![CaptionedPath] = files[OutputPath]]
             /\ captioned_path' = CaptionedPath
             /\ gpc' = "audio"
             /\ UNCHANGED result_path
        ELSE /\ GenReturn(OutputPath)
             /\ UNCHANGED << files, captioned_path >>
    /\ UNCHANGED << cap_calls, cap_log, uploaded_video >>
    /\ UNCHANGED outsideGen

\* Lines 1655-1659: the background audio overlay; on success the copy with
\* audio becomes captioned_path.
AddBackgroundAudio ==
    /\ gpc = "audio"
    /\ \E audio_path \in BOOLEAN :
        IF audio_path
        THEN /\ files' = [files EXCEPT ![AudioPath] = files[captioned_path]]
             /\ captioned_path' = AudioPath
        ELSE UNCHANGED << files, captioned_path >>
    /\ gpc' = "replace"
    /\ UNCHANGED << result_path, cap_calls, cap_log, uploaded_video >>
    /\ UNCHANGED outsideGen

\* Lines 1661-1668: os.remove(output_path); os.rename(captioned_path,
\* output_path); when either raises, captioned_path is returned.
ReplaceOriginal ==
    /\ gpc = "replace"
    /\ \E outcome \in {"ok", "remove_failed", "rename_failed"} :
        CASE outcome = "ok" ->
                /\ files' = [files EXCEPT ![OutputPath] = files[captioned_path],
                                          ![captioned_path] = None]
                /\ gpc' = "cap"
                /\ UNCHANGED result_path
          [] outcome = "remove_failed" ->
                /\ GenReturn(captioned_path)
                /\ UNCHANGED files
          [] OTHER ->
                /\ files' = [files EXCEPT ![OutputPath] = None]
                /\ GenReturn(captioned_path)
    /\ UNCHANGED << captioned_path, cap_calls, cap_log, uploaded_video >>
    /\ UNCHANGED outsideGen

\* Lines 1670-1672: capped = _ensure_under_duration(output_path, 59);
\* return capped or output_path.
HardCap ==
    /\ gpc = "cap"
    /\ \E probe \in ProbeOutcomes(files[OutputPath]), encode \in EncodeOutcomes :
        LET capped == EnsureUnderDuration(files, OutputPath, MaxDuration,
                                          probe, encode)
        IN  /\ files' = capped.fs
            /\ cap_calls' = cap_calls \cup {OutputPath}
            /\ cap_log' = Some([video_path |-> OutputPath, before |-> files,
                                probe |-> probe, ret |-> capped.ret,
                                reencoded |-> capped.reencoded,
                                after |-> capped.fs])
            /\ GenReturn(IF capped.ret # NoPath THEN capped.ret ELSE OutputPath)
    /\ UNCHANGED << captioned_path, uploaded_video >>
    /\ UNCHANGED outsideGen

\* src/main.py lines 234-280: no result path ends the run with exit status
\* 1; any result path is handed to upload_video.
MainUpload ==
    /\ gpc = "returned"
    /\ IF result_path = NoPath
       THEN /\ gpc' = "exit"
            /\ UNCHANGED uploaded_video
       ELSE /\ gpc' = "uploaded"
            /\ uploaded_video' = Some([path |-> result_path,
                                       file |-> files[result_path]])
    /\ UNCHANGED << files, captioned_path, result_path, cap_calls, cap_log >>
    /\ UNCHANGED outsideGen

NextGen ==
    \/ CreateVideo
    \/ WaitForVideo
    \/ DownloadVideo
    \/ AddCaptions
    \/ AddBackgroundAudio
    \/ ReplaceOriginal
    \/ HardCap
    \/ MainUpload

SpecGen == InitGen /\ [][NextGen]_vars

\* ----------------------------------------- _generate_script_from_trend
MaxSentences == 3
MaxAiSentences == 3

\* Sentences a description is made of: a two-word sentence, an opening that
\* shares its first words with a title, three long sentences, a sentence
\* that is word for word the general closure, and a fragment of two letters.
Fragment == Text("ok", 1)
SourceTexts ==
    { Text("I tried", 2), Text("I quit my job", 9), Text("It started when", 80),
      Text("Then one day", 70), Text("After that", 40), GeneralClosure, Fragment }
Descriptions == UNION { [1..k -> SourceTexts] : k \in 0..MaxSentences }

Titles ==
    { [kind |-> "empty", stem |-> "", n |-> 0, first_person |-> FALSE, filler |-> FALSE],
      [kind |-> "blank", stem |-> " ", n |-> 0, first_person |-> FALSE, filler |-> FALSE],
      [kind |-> "text", stem |-> "AITA for leaving", n |-> 5, first_person |-> FALSE, filler |-> FALSE],
      [kind |-> "text", stem |-> "I told my boss no", n |-> 6, first_person |-> TRUE, filler |-> FALSE],
      [kind |-> "text", stem |-> "I have a story about", n |-> 7, first_person |-> TRUE, filler |-> TRUE],
      [kind |-> "text", stem |-> "I quit my job", n |-> 6, first_person |-> TRUE, filler |-> FALSE],
      [kind |-> "text", stem |-> "I never thought", n |-> 19, first_person |-> TRUE, filler |-> FALSE],
      [kind |-> "text", stem |-> "Update on", n |-> 31, first_person |-> FALSE, filler |-> FALSE] }

\* What the text generator can give back, after the clean-up of lines
\* 2349-2415: any script of up to MaxAiSentences sentences.
AiTexts ==
    { Text("I quit my job", 9), Text("It started when", 80),
      Text("Then one day", 70), Text("After that", 70) }
AiScripts ==
    { Script(sents, end) :
        sents \in UNION { [1..k -> AiTexts] : k \in 1..MaxAiSentences },
        end \in {".", ""} }

Range(seq) == { seq[i] : i \in DOMAIN seq }

RECURSIVE Words(_)
\* len(script.split()) of the sentences joined
Words(sents) == IF sents = << >> THEN 0 ELSE Head(sents).n + Words(Tail(sents))

TitleText(t) == Text(t.stem, t.n)

\* title and title.strip().startswith("I ") and len(title.split()) <= 18
Qualifies(t) == t.kind = "text" /\ t.first_person /\ t.n <= HookMaxWords

\* len(s.strip()) > 5
CharsOver5(t) == t # Fragment

\* set(first_sent.lower().split()[:5])
FirstWords(t) == { << t.stem, i, "" >> : i \in 1..Min(HeadWords, t.n) }

\* set(hook_statement.lower().split()[:5]): hook_statement ends with a
\* full stop, which is part of its last word
HookWords(t) ==
    { << t.stem, i, IF i = t.n THEN "." ELSE "" >> : i \in 1..Min(HeadWords, t.n) }

\* similarity > 0.5 of lines 2504-2508
IsFirstSentHook(first_sent, hook) ==
    LET first_words == FirstWords(first_sent)
        hook_words == HookWords(hook)
        largest == Max(Max(Cardinality(first_words), Cardinality(hook_words)), 1)
    IN  2 * Cardinality(first_words \cap hook_words) > largest

\* Lines 2486-2529: the hook (when it is added) and the opening, middle and
\* conclusion sections of the sentence list.
ScriptSentences(t, sents) ==
    LET hook_statement == IF Qualifies(t) THEN TitleText(t) ELSE sents[1]
        has_filler_phrase == Qualifies(t) /\ t.filler
        hook == IF ~IsFirstSentHook(sents[1], hook_statement) /\ ~has_filler_phrase
                THEN << hook_statement >>
                ELSE << >>
        opening_count == Min(OpeningCount, Len(sents))
        middle_end == Min(opening_count + MiddleCount, Len(sents))
        conclusion_start == Max(opening_count + MiddleCount, Len(sents) - 5)
    IN  hook \o SubSeq(sents, 1, opening_count)
             \o SubSeq(sents, opening_count + 1, middle_end)
             \o (IF Len(sents) > opening_count + MiddleCount
                 THEN SubSeq(sents, conclusion_start + 1, Len(sents))
                 ELSE << >>)

RECURSIVE Kept(_, _, _)
\* the loop of lines 2608-2613 (and 2442-2447): how many leading sentences
\* are kept before the first one that would pass target_words - 18
Kept(body, i, out_words) ==
    IF i > Len(body) THEN i - 1
    ELSE IF out_words + body[i].n > TargetWords - ClosingReserve THEN i - 1
    ELSE Kept(body, i + 1, out_words + body[i].n)

\* Lines 2603-2618 (and 2437-2453): the sentence list after trimming
TrimSentences(sent_list) ==
    LET ending == sent_list[Len(sent_list)]
        body == SubSeq(sent_list, 1, Len(sent_list) - 1)
        out == SubSeq(body, 1, Kept(body, 1, 0))
    IN  IF ending \notin Range(out) THEN Append(out, ending) ELSE out

TrimScript(script) ==
    IF script.sents = << >> THEN script
    ELSE Script(TrimSentences(script.sents), ".")

Bank(smok) == IF smok THEN SmokingBank ELSE GeneralBank
Closure(smok) == IF smok THEN SmokingClosure ELSE GeneralClosure

RECURSIVE AppendExtra(_, _, _)
\* the loop of lines 2575-2579
AppendExtra(sents, extra, i) ==
    IF i > Len(extra) \/ Words(sents) >= TargetWords THEN sents
    ELSE AppendExtra(Append(sents, extra[i]), extra, i + 1)

\* Lines 2547-2599: the expanded script and the word count that is logged
ExpandScript(script, smok) ==
    LET appended == AppendExtra(script.sents, Bank(smok), 1)
        words_now == Words(appended)
        closure_sentence == Closure(smok)
        closed == IF closure_sentence \in Range(appended) THEN appended
                  ELSE IF words_now + closure_sentence.n <= MaxWords
                  THEN Append(appended, closure_sentence)
                  ELSE [appended EXCEPT ![Len(appended)] = closure_sentence]
    IN  [script |-> Script(closed, "."), word_count |-> words_now]

\* script.startswith(desired_hook)
StartsWith(script, hook) ==
    /\ script.sents # << >>
    /\ script.sents[1].stem = hook.stem
    /\ script.sents[1].n >= hook.n

\* Lines 2428-2433: the first sentence replaced by the desired hook
WithHook(script, t) ==
    IF Qualifies(t) /\ ~StartsWith(script, TitleText(t))
    THEN Script(<< TitleText(t) >> \o Tail(script.sents),
                IF Len(script.sents) > 1 THEN script.end ELSE ".")
    ELSE script

\* return <script>
ScriptReturn(script, how) ==
    /\ spc' = "returned"
    /\ returned' = Some(script)
    /\ via' = how

OutsideScriptIdle ==
    /\ CacheIdle /\ GenIdle /\ FootageIdle /\ SaveIdle
    /\ CapIdle /\ RaceIdle /\ LedgerIdle /\ AllocIdle
    /\ FetchIdle /\ PickIdle /\ MainIdle /\ UploadIdle
    /\ WaitIdle

InitScript ==
    /\ OutsideScriptIdle
    /\ spc = "start"
    /\ title \in Titles
    /\ description \in Descriptions
    /\ smoking \in BOOLEAN
    /\ ai_available \in BOOLEAN
    /\ story_text = << >>
    /\ sentences = << >>
    /\ initial_script = EmptyScript
    /\ word_count = 0
    /\ draft = EmptyScript
    /\ via = "none"
    /\ returned = None

\* Lines 2265-2280: the story text is the description, or the title when
\* the description is empty; with neither, the generic sentence is returned.
ScriptStart ==
    /\ spc = "start"
    /\ story_text' = IF description # << >> THEN description
                     ELSE IF title.kind = "text" THEN << TitleText(title) >>
                     ELSE << >>
    /\ IF description = << >> /\ title.kind = "empty"
       THEN ScriptReturn(Script(<< GenericText >>, "."), "generic")
       ELSE /\ spc' = IF ai_available THEN "ai" ELSE "extract"
            /\ UNCHANGED << via, returned >>
    /\ UNCHANGED << title, description, smoking, ai_available, sentences,
                    initial_script, word_count, draft >>
    /\ UNCHANGED outsideScript

\* Lines 2280-2463: the text generator gives nothing (None, or an exception
\* that line 2462 catches) or a script; the script gets the desired hook, is
\* trimmed when over max_words, and is returned unless word_count is below
\* min_words.  word_count is taken at line 2417, before the hook is put in.
AiStage ==
    /\ spc = "ai"
    /\ \/ /\ spc' = "extract"
          /\ UNCHANGED << initial_script, word_count, draft, via, returned >>
       \/ \E script \in AiScripts :
            LET counted == Words(script.sents)
                hooked == WithHook(script, title)
                too_long == counted > MaxWords
                final == IF too_long THEN TrimScript(hooked) ELSE hooked
                final_count == IF too_long THEN Words(final.sents) ELSE counted
            IN  IF final_count < MinWords
                THEN /\ spc' = "extract"
                     /\ UNCHANGED << initial_script, word_count, draft, via,
                                     returned >>
                ELSE /\ initial_script' = final
                     /\ word_count' = final_count
                     /\ draft' = hooked
                     /\ ScriptReturn(final, IF too_long THEN "ai_trimmed" ELSE "ai")
    /\ UNCHANGED << title, description, smoking, ai_available, story_text,
                    sentences >>
    /\ UNCHANGED outsideScript

\* Lines 2471-2482: the sentences of more than five characters; with none,
\* the title is returned when it is non-empty and has at most 30 words.
Extract ==
    /\ spc = "extract"
    /\ LET kept == SelectSeq(story_text, CharsOver5)
       IN  /\ sentences' = kept
           /\ IF kept # << >>
              THEN /\ spc' = "assemble"
                   /\ UNCHANGED << via, returned >>
              ELSE IF title.kind # "empty" /\ title.n <= TitleMaxWords
              THEN ScriptReturn(Script(IF title.kind = "text"
                                       THEN << TitleText(title) >> ELSE << >>, ""),
                                "title")
              ELSE ScriptReturn(Script(<< GenericText >>, "."), "generic")
    /\ UNCHANGED << title, description, smoking, ai_available, story_text,
                    initial_script, word_count, draft >>
    /\ UNCHANGED outsideScript

\* Lines 2486-2537: the draft and its word count.
Assemble ==
    /\ spc = "assemble"
    /\ LET script == Script(ScriptSentences(title, sentences), ".")
       IN  /\ initial_script' = script
           /\ draft' = script
           /\ word_count' = Words(script.sents)
    /\ spc' = "budget"
    /\ UNCHANGED << title, description, smoking, ai_available, story_text,
                    sentences, via, returned >>
    /\ UNCHANGED outsideScript

\* Lines 2544-2601 and 2624: a draft below min_words is expanded.
Expand ==
    /\ spc = "budget"
    /\ word_count < MinWords
    /\ LET expanded == ExpandScript(initial_script, smoking)
       IN  /\ initial_script' = expanded.script
           /\ word_count' = expanded.word_count
           /\ ScriptReturn(expanded.script, "expanded")
    /\ UNCHANGED << title, description, smoking, ai_available, story_text,
                    sentences, draft >>
    /\ UNCHANGED outsideScript

\* Lines 2602-2621 and 2624: a draft above max_words is trimmed.
TrimDraft ==
    /\ spc = "budget"
    /\ word_count > MaxWords
    /\ LET trimmed == TrimScript(initial_script)
       IN  /\ initial_script' = trimmed
           /\ word_count' = Words(trimmed.sents)
           /\ ScriptReturn(trimmed, "trimmed")
    /\ UNCHANGED << title, description, smoking, ai_available, story_text,
                    sentences, draft >>
    /\ UNCHANGED outsideScript

\* Lines 2544, 2602 and 2624: any other draft is returned as it is.
KeepDraft ==
    /\ spc = "budget"
    /\ word_count >= MinWords
    /\ word_count <= MaxWords
    /\ ScriptReturn(initial_script, "as_is")
    /\ UNCHANGED << title, description, smoking, ai_available, story_text,
                    sentences, initial_script, word_count, draft >>
    /\ UNCHANGED outsideScript

NextScript ==
    \/ ScriptStart
    \/ AiStage
    \/ Extract
    \/ Assemble
    \/ Expand
    \/ TrimDraft
    \/ KeepDraft

SpecScript == InitScript /\ [][NextScript]_vars

\* ------------------------------------------------------- footage chain
\* generate_video_from_trend lines 1606-1629 and create_video.

\* What a stage of the chain can meet.
ImageOutcomes == {"pexels_url", "curated_url", "raises"}
AssetOutcomes == {"asset", "no_url", "download_failed", "clip_failed",
                  "upload_failed", "raises"}

\* _get_background_image_url: a Pexels URL, a curated URL, or None when
\* anything raises (line 411)
GetBackgroundImageUrl(outcome) ==
    IF outcome = "raises" THEN [ret |-> None, raised |-> FALSE]
    ELSE [ret |-> Some("image_url"), raised |-> FALSE]

\* _get_minecraft_parkour_video_asset_id seen from its caller: the asset id,
\* or None when a stage gives up or anything raises (line 1127)
GetMinecraftParkourVideoAssetId(outcome) ==
    IF outcome = "asset" THEN [ret |-> Some("asset_id"), raised |-> FALSE]
    ELSE [ret |-> None, raised |-> FALSE]

\* Mutant: the image preferred to the video asset.
BackgroundImageFirst(asset, image) ==
    IF image # None THEN {"image"}
    ELSE IF asset # None THEN {"video"}
    ELSE {"color"}

\* Lines 1172-1198: the background put into video_input
Background(asset, image) ==
    IF asset # None THEN {"video"}
    ELSE IF image # None THEN {"image"}
    ELSE {"color"}

\* return <video id or None> of create_video
CreateReturn(id) ==
    /\ fpc' = "done"
    /\ created_video_id' = id

\* a response with a video id in it
Started(resp) == resp.status = 200 /\ resp.has_id

OutsideFootageIdle ==
    /\ CacheIdle /\ GenIdle /\ ScriptIdle /\ SaveIdle
    /\ CapIdle /\ RaceIdle /\ LedgerIdle /\ AllocIdle
    /\ FetchIdle /\ PickIdle /\ MainIdle /\ UploadIdle
    /\ WaitIdle

InitFootage ==
    /\ OutsideFootageIdle
    /\ fpc = "image"
    /\ youtube_ready \in BOOLEAN
    /\ background_image_url = None
    /\ video_asset_id = None
    /\ video_input = {}
    /\ posted = << >>
    /\ error_data = NoResponse
    /\ retry_attempt = 0
    /\ created_video_id = None
    /\ escaped = FALSE

\* Line 1611
GetImage ==
    /\ fpc = "image"
    /\ \E outcome \in ImageOutcomes :
         LET r == GetBackgroundImageUrl(outcome)
         IN  /\ background_image_url' = r.ret
             /\ escaped' = r.raised
             /\ fpc' = IF r.raised THEN "raised" ELSE "asset"
    /\ UNCHANGED << youtube_ready, video_asset_id, video_input, posted,
                    error_data, retry_attempt, created_video_id >>
    /\ UNCHANGED outsideFootage

\* Lines 1615-1622
GetAsset ==
    /\ fpc = "asset"
    /\ IF youtube_ready
       THEN \E outcome \in AssetOutcomes :
              LET r == GetMinecraftParkourVideoAssetId(outcome)
              IN  /\ video_asset_id' = r.ret
                  /\ escaped' = r.raised
                  /\ fpc' = IF r.raised THEN "raised" ELSE "create"
       ELSE /\ fpc' = "create"
            /\ UNCHANGED << video_asset_id, escaped >>
    /\ UNCHANGED << youtube_ready, background_image_url, video_input, posted,
                    error_data, retry_attempt, created_video_id >>
    /\ UNCHANGED outsideFootage

\* create_video lines 1172-1249: the request is built and posted; a 200 is
\* answered with the video id or None, a 400 is looked into, anything else
\* (requests.post raising included) gives None.
CreateVideoRequest ==
    /\ fpc = "create"
    /\ LET background == Background(video_asset_id, background_image_url)
       IN  /\ video_input' = background
           /\ posted' = Append(posted, background)
    /\ \E response \in Responses :
         /\ error_data' = response
         /\ IF response.status = 200
            THEN CreateReturn(IF response.has_id THEN Some("video_id") ELSE None)
            ELSE IF response.status = 400
            THEN /\ fpc' = IF response.voice THEN "voice_retry" ELSE "background_check"
                 /\ UNCHANGED created_video_id
            ELSE CreateReturn(None)
    /\ UNCHANGED << youtube_ready, background_image_url, video_asset_id,
                    retry_attempt, escaped >>
    /\ UNCHANGED outsideFootage

\* Lines 1250-1310: one turn of the voice retry loop, or its end.  The
\* retried request carries the background video_input already holds.
VoiceRetry ==
    /\ fpc = "voice_retry"
    /\ IF retry_attempt >= MaxVoiceRetries
       THEN /\ fpc' = "background_check"
            /\ UNCHANGED << posted, retry_attempt, created_video_id >>
       ELSE \/ /\ fpc' = "background_check"       \* no voices: break
               /\ UNCHANGED << posted, retry_attempt, created_video_id >>
            \/ /\ CreateReturn(None)              \* _get_voices raises
               /\ UNCHANGED << posted, retry_attempt >>
            \/ /\ posted' = Append(posted, video_input)
               /\ \E response \in Responses :
                    IF Started(response)
                    THEN CreateReturn(Some("video_id")) /\ UNCHANGED retry_attempt
                    ELSE IF response.status = 0
                    THEN CreateReturn(None) /\ UNCHANGED retry_attempt
                    ELSE IF response.status = 400 /\ ~response.voice
                    THEN /\ fpc' = "background_check"
                         /\ UNCHANGED << retry_attempt, created_video_id >>
                    ELSE /\ retry_attempt' = retry_attempt + 1
                         /\ UNCHANGED << fpc, created_video_id >>
    /\ UNCHANGED << youtube_ready, background_image_url, video_asset_id,
                    video_input, error_data, escaped >>
    /\ UNCHANGED outsideFootage

\* Lines 1312-1403: a 400 that names the video background is retried once,
\* with the image when there is one and with the colour otherwise; every
\* other end of the 400 branch returns None.
BackgroundCheck ==
    /\ fpc = "background_check"
    /\ IF error_data.video_bg
       THEN LET background == IF background_image_url # None
                              THEN {"image"} ELSE {"color"}
            IN  /\ video_input' = background
                /\ posted' = Append(posted, background)
                /\ \E response \in Responses :
                     CreateReturn(IF Started(response) THEN Some("video_id")
                                  ELSE None)
       ELSE /\ CreateReturn(None)
            /\ UNCHANGED << video_input, posted >>
    /\ UNCHANGED << youtube_ready, background_image_url, video_asset_id,
                    error_data, retry_attempt, escaped >>
    /\ UNCHANGED outsideFootage

NextFootage ==
    \/ GetImage
    \/ GetAsset
    \/ CreateVideoRequest
    \/ VoiceRetry
    \/ BackgroundCheck

SpecFootage == InitFootage /\ [][NextFootage]_vars

\* ------------------------------------- _save_cached_video_info on disk
\* Lines 790-799 write by write.  The sidecar on disk is the entry being
\* written and how much of its text has reached the file: open(..., 'w')
\* leaves the file empty, json.dump writes the opening with url and
\* video_path, each offset, and the closing brace.

\* the number of writes the text of an entry takes
Size(entry) == Len(entry.used_segments) + 2

CompleteFile(entry) == Some([entry |-> entry, written |-> Size(entry)])

IsComplete(file) == file # None /\ file[1].written = Size(file[1].entry)

\* Lines 753-760: json.load of the sidecar; an incomplete text raises and
\* the bare except leaves used_segments empty
LoadInfo(file) ==
    IF IsComplete(file) THEN file[1].entry.used_segments ELSE << >>

OutsideSaveIdle ==
    /\ CacheIdle /\ GenIdle /\ ScriptIdle /\ FootageIdle
    /\ CapIdle /\ RaceIdle /\ LedgerIdle /\ AllocIdle
    /\ FetchIdle /\ PickIdle /\ MainIdle /\ UploadIdle
    /\ WaitIdle

InitSave ==
    /\ OutsideSaveIdle
    /\ save_pc = "call"
    /\ info_file \in {None}
          \cup { CompleteFile(SaveCachedVideoInfo(CachePath, list)[1]) :
                   list \in OffsetLists }
    /\ previous_file = None
    /\ loaded_segments = << >>

\* Lines 777-792: the call, up to open(cache_info_file, 'w'), which
\* truncates the file or raises (line 798 catches it)
SaveOpen ==
    /\ save_pc = "call"
    /\ previous_file' = info_file
    /\ \E list \in OffsetLists :
         \/ /\ info_file' = Some([entry |-> SaveCachedVideoInfo(CachePath, list)[1],
                                  written |-> 0])
            /\ save_pc' = "writing"
         \/ /\ save_pc' = "saved"
            /\ UNCHANGED info_file
    /\ UNCHANGED loaded_segments
    /\ UNCHANGED outsideSave

\* Lines 793-797: one write of json.dump reaches the file, or raises
SaveWrite ==
    /\ save_pc = "writing"
    /\ info_file[1].written < Size(info_file[1].entry)
    /\ \/ /\ info_file' = Some([info_file[1] EXCEPT !.written = @ + 1])
          /\ UNCHANGED save_pc
       \/ /\ save_pc' = "saved"
          /\ UNCHANGED info_file
    /\ UNCHANGED << previous_file, loaded_segments >>
    /\ UNCHANGED outsideSave

\* Line 792: the with block closes the file
SaveClose ==
    /\ save_pc = "writing"
    /\ info_file[1].written = Size(info_file[1].entry)
    /\ save_pc' = "saved"
    /\ UNCHANGED << info_file, previous_file, loaded_segments >>
    /\ UNCHANGED outsideSave

\* The process dies between two steps of the save.
SaveCrash ==
    /\ save_pc = "writing"
    /\ save_pc' = "crashed"
    /\ UNCHANGED << info_file, previous_file, loaded_segments >>
    /\ UNCHANGED outsideSave

\* The next process reads the sidecar (lines 753-760).
LoadAfterSave ==
    /\ save_pc \in {"saved", "crashed"}
    /\ loaded_segments' = LoadInfo(info_file)
    /\ save_pc' = "loaded"
    /\ UNCHANGED << info_file, previous_file >>
    /\ UNCHANGED outsideSave

NextSave ==
    \/ SaveOpen
    \/ SaveWrite
    \/ SaveClose
    \/ SaveCrash
    \/ LoadAfterSave

SpecSave == InitSave /\ [][NextSave]_vars

\* ------------------------------------- _ensure_under_duration on disk
\* Lines 1985-2027 step by step.  A file is its duration and whether its
\* writer finished it; ffmpeg writes its output piece by piece.

\* the number of pieces ffmpeg writes its output in
EncodePieces == 2

WholeFile(d) == Some([duration |-> d, complete |-> TRUE])
PartFile(d) == Some([duration |-> d, complete |-> FALSE])

\* Mutant: ffmpeg writing over its input.
TrimmedPathInPlace(video_path) == video_path

\* Lines 2009-2010: f"{base}_capped{ext}"
TrimmedPath(video_path) == CappedPath

\* return <path> / return None of _ensure_under_duration
CapReturn(path) ==
    /\ cap_pc' = "cap_done"
    /\ cap_ret' = path

OutsideCapIdle ==
    /\ CacheIdle /\ GenIdle /\ ScriptIdle /\ FootageIdle
    /\ SaveIdle /\ RaceIdle /\ LedgerIdle /\ AllocIdle
    /\ FetchIdle /\ PickIdle /\ MainIdle /\ UploadIdle
    /\ WaitIdle

InitCap ==
    /\ OutsideCapIdle
    /\ cap_pc = "exists"
    /\ \E out \in {None} \cup { WholeFile(d) : d \in RenderedDurations },
          left \in {None, PartFile(MaxDuration)} :
         /\ cap_files = [p \in {OutputPath, CappedPath} |->
                            IF p = OutputPath THEN out ELSE left]
         /\ original = out
    /\ probed_duration = 0
    /\ pieces_written = 0
    /\ cap_ret = NoPath

\* Lines 1991-1992
CapExists ==
    /\ cap_pc = "exists"
    /\ IF cap_files[OutputPath] = None
       THEN CapReturn(NoPath)
       ELSE cap_pc' = "probe" /\ UNCHANGED cap_ret
    /\ UNCHANGED << cap_files, original, probed_duration, pieces_written >>
    /\ UNCHANGED outsideCap

\* Lines 1993-2007: the probe and the comparison with max_duration + 0.2
CapProbe ==
    /\ cap_pc = "probe"
    /\ \E probe \in ProbeOutcomes(Some(cap_files[OutputPath][1].duration)) :
         IF probe = None
         THEN CapReturn(NoPath) /\ UNCHANGED probed_duration
         ELSE /\ probed_duration' = probe[1]
              /\ IF probe[1] <= MaxDuration * 10 + CapTolerance
                 THEN CapReturn(OutputPath)
                 ELSE cap_pc' = "ffmpeg" /\ UNCHANGED cap_ret
    /\ UNCHANGED << cap_files, original, pieces_written >>
    /\ UNCHANGED outsideCap

\* Lines 2011-2020: ffmpeg -t max_duration -y trimmed_path starts its
\* output file over whatever is at that path, or fails to start (check=True
\* raises, line 2025 returns None).
CapEncode ==
    /\ cap_pc = "ffmpeg"
    /\ LET trimmed_path == TrimmedPath(OutputPath)
       IN  \/ /\ cap_files' = [cap_files EXCEPT ![trimmed_path] = PartFile(0)]
              /\ cap_pc' = "ffmpeg_writing"
              /\ UNCHANGED cap_ret
           \/ /\ CapReturn(NoPath)
              /\ UNCHANGED cap_files
    /\ pieces_written' = 0
    /\ UNCHANGED << original, probed_duration >>
    /\ UNCHANGED outsideCap

\* Lines 2011-2020: ffmpeg writes one more piece, finishes the file, or
\* fails or times out and leaves what it wrote.
CapEncodeWrite ==
    /\ cap_pc = "ffmpeg_writing"
    /\ LET trimmed_path == TrimmedPath(OutputPath)
           cut == Min(original[1].duration, MaxDuration * 10)
           next == pieces_written + 1
       IN  \/ /\ next < EncodePieces
              /\ cap_files' = [cap_files EXCEPT
                    ![trimmed_path] = PartFile((cut * next) \div EncodePieces)]
              /\ pieces_written' = next
              /\ UNCHANGED << cap_pc, cap_ret >>
           \/ /\ next >= EncodePieces
              /\ cap_files' = [cap_files EXCEPT ![trimmed_path] = WholeFile(cut)]
              /\ pieces_written' = next
              /\ cap_pc' = "replace"
              /\ UNCHANGED cap_ret
           \/ /\ CapReturn(NoPath)
              /\ UNCHANGED << cap_files, pieces_written >>
    /\ UNCHANGED << original, probed_duration >>
    /\ UNCHANGED outsideCap

\* Lines 2021-2024: os.replace(trimmed_path, video_path), in one step, or
\* raising (line 2025 returns None)
CapReplace ==
    /\ cap_pc = "replace"
    /\ LET trimmed_path == TrimmedPath(OutputPath)
       IN  \/ /\ cap_files' = IF trimmed_path = OutputPath THEN cap_files
                              ELSE [cap_files EXCEPT
                                      ![OutputPath] = cap_files[trimmed_path],
                                      ![trimmed_path] = None]
              /\ CapReturn(OutputPath)
           \/ /\ CapReturn(NoPath)
              /\ UNCHANGED cap_files
    /\ UNCHANGED << original, probed_duration, pieces_written >>
    /\ UNCHANGED outsideCap

\* The process dies between two steps of the call.
CapCrash ==
    /\ cap_pc \in {"exists", "probe", "ffmpeg", "ffmpeg_writing", "replace"}
    /\ cap_pc' = "cap_crashed"
    /\ UNCHANGED << cap_files, original, probed_duration, pieces_written,
                    cap_ret >>
    /\ UNCHANGED outsideCap

NextCap ==
    \/ CapExists
    \/ CapProbe
    \/ CapEncode
    \/ CapEncodeWrite
    \/ CapReplace
    \/ CapCrash

SpecCap == InitCap /\ [][NextCap]_vars

\* ------------------------------- two processes on one cache directory
\* Lines 930-974 run by two pipeline processes (two cron runs that overlap)
\* against the same cached media file and sidecar.  Each step of a process
\* is one step of the model; the steps of the two interleave freely, since
\* the code takes no lock and keeps no version of the sidecar.

\* Durations of the cached file: grids of 3 and of 4 offsets.
SharedDurations == {84, 89}

\* Mutant: the save merging what is on disk with the local list.
SavedListMerged(on_disk, used, start) ==
    SortedList(UsedSet(on_disk) \cup UsedSet(used) \cup {start})

\* Lines 964-973: the list written, sorted(list(set(used_segments))) after
\* the append of segment_start
SavedList(on_disk, used, start) ==
    SortedList(UsedSet(used) \cup {start})

OutsideRaceIdle ==
    /\ CacheIdle /\ GenIdle /\ ScriptIdle /\ FootageIdle
    /\ SaveIdle /\ CapIdle /\ LedgerIdle /\ AllocIdle
    /\ FetchIdle /\ PickIdle /\ MainIdle /\ UploadIdle
    /\ WaitIdle

InitRace ==
    /\ OutsideRaceIdle
    /\ p_pc = [p \in Procs |-> "load"]
    /\ p_used_segments = [p \in Procs |-> << >>]
    /\ p_segment_start = [p \in Procs |-> None]
    /\ shared_duration \in SharedDurations
    /\ shared_sidecar \in { SortedList(S) : S \in SUBSET Grid(shared_duration) }
    /\ last_saver = 0

\* Lines 931-937: _get_cached_video_info read afresh
RaceLoad(p) ==
    /\ p_pc[p] = "load"
    /\ p_used_segments' = [p_used_segments EXCEPT ![p] = shared_sidecar]
    /\ p_pc' = [p_pc EXCEPT ![p] = "select"]
    /\ UNCHANGED << p_segment_start, shared_duration, shared_sidecar, last_saver >>
    /\ UNCHANGED outsideRace

\* Lines 940-944: _get_random_unused_segment on the local list
RaceSelect(p) ==
    /\ p_pc[p] = "select"
    /\ \E start \in GetRandomUnusedSegment(Some(shared_duration),
                                          p_used_segments[p]) :
         p_segment_start' = [p_segment_start EXCEPT ![p] = Some(start)]
    /\ p_pc' = [p_pc EXCEPT ![p] = "clip"]
    /\ UNCHANGED << p_used_segments, shared_duration, shared_sidecar, last_saver >>
    /\ UNCHANGED outsideRace

\* Lines 948-961: _trim_video; a failed clip leaves the cached-segment path
RaceClip(p) ==
    /\ p_pc[p] = "clip"
    /\ \E clipped \in BOOLEAN :
         p_pc' = [p_pc EXCEPT ![p] = IF clipped THEN "save" ELSE "fell_through"]
    /\ UNCHANGED << p_used_segments, p_segment_start, shared_duration,
                    shared_sidecar, last_saver >>
    /\ UNCHANGED outsideRace

\* Lines 962-974: the offset is appended to the local list and the whole
\* list is written over the sidecar
RaceSave(p) ==
    /\ p_pc[p] = "save"
    /\ LET list == SavedList(shared_sidecar, p_used_segments[p],
                             p_segment_start[p][1])
       IN  /\ p_used_segments' = [p_used_segments EXCEPT ![p] = list]
           /\ shared_sidecar' = list
    /\ last_saver' = p
    /\ p_pc' = [p_pc EXCEPT ![p] = "saved"]
    /\ UNCHANGED << p_segment_start, shared_duration >>
    /\ UNCHANGED outsideRace

NextRace ==
    \E p \in Procs :
        \/ RaceLoad(p)
        \/ RaceSelect(p)
        \/ RaceClip(p)
        \/ RaceSave(p)

SpecRace == InitRace /\ [][NextRace]_vars

\* ------------------------------------------------- used-topics ledger
\* _load_used_topics, _save_used_topic, _normalize_topic_title and
\* _is_topic_used of src/reddit_fetcher.py (src/trends_fetcher.py has the
\* same four, and clear_used_topics).  A title is its sequence of
\* characters.

MaxSaves == 2

\* Titles over the characters "a", "A", "b" and the blank: with and without
\* capitals, with blanks before, after and inside.
TopicTitles ==
    { << >>, << " " >>, << "a" >>, << "A" >>, << "b" >>,
      << " ", "a" >>, << "A", " " >>, << " ", "a", " " >>,
      << "a", "b" >>, << "A", "b" >>, << " ", "A", "b" >>, << "a", "b", " " >>,
      << "a", " ", "b" >>, << "A", " ", "b" >> }

\* str.lower(), one character
LowerChar(c) == IF c = "A" THEN "a" ELSE c

\* str.lower()
Lower(t) == [i \in DOMAIN t |-> LowerChar(t[i])]

RECURSIVE LStrip(_)
LStrip(t) == IF t # << >> /\ Head(t) = " " THEN LStrip(Tail(t)) ELSE t

RECURSIVE RStrip(_)
RStrip(t) ==
    IF t # << >> /\ t[Len(t)] = " " THEN RStrip(SubSeq(t, 1, Len(t) - 1)) ELSE t

\* str.strip()
Strip(t) == RStrip(LStrip(t))

\* Mutant: the title lower-cased and not stripped.
NormalizeTopicTitleNoStrip(topic_title) == Lower(topic_title)

\* _normalize_topic_title: title.lower().strip()
NormalizeTopicTitle(topic_title) == Strip(Lower(topic_title))

\* _load_used_topics: the set in the file; an absent or unreadable file
\* gives the empty set
LoadUsedTopics(file) == IF file.state = "ok" THEN file.topics ELSE {}

\* What the write of lines 173-178 may do: write the file, fail at open
\* (file as it was), or fail while writing (file truncated).
LedgerWriteOutcomes == {"ok", "open_failed", "write_failed"}

OutsideLedgerIdle ==
    /\ CacheIdle /\ GenIdle /\ ScriptIdle /\ FootageIdle
    /\ SaveIdle /\ CapIdle /\ RaceIdle /\ AllocIdle
    /\ FetchIdle /\ PickIdle /\ MainIdle /\ UploadIdle
    /\ WaitIdle

InitLedger ==
    /\ OutsideLedgerIdle
    /\ lpc = "start"
    /\ ledger_file = NoLedger
    /\ saves = 0
    /\ saved_title = None
    /\ saved_titles = {}
    /\ queried_title = << >>
    /\ topic_used = FALSE

\* _save_used_topic(topic_title)
SaveUsedTopic ==
    /\ saves < MaxSaves
    /\ \E topic_title \in TopicTitles, outcome \in LedgerWriteOutcomes :
         LET used_topics == LoadUsedTopics(ledger_file)
                               \cup {NormalizeTopicTitle(topic_title)}
         IN  /\ ledger_file' =
                   CASE outcome = "ok" -> [state |-> "ok", topics |-> used_topics]
                     [] outcome = "write_failed" -> [state |-> "corrupt", topics |-> {}]
                     [] OTHER -> ledger_file
             /\ saved_title' = IF outcome = "ok" THEN Some(topic_title) ELSE None
             /\ saved_titles' = IF outcome = "ok"
                                THEN saved_titles \cup {topic_title}
                                ELSE saved_titles
    /\ saves' = saves + 1
    /\ lpc' = "saved"
    /\ UNCHANGED << queried_title, topic_used >>
    /\ UNCHANGED outsideLedger

\* _is_topic_used(topic_title)
IsTopicUsed ==
    /\ \E topic_title \in TopicTitles :
         /\ queried_title' = topic_title
         /\ topic_used' = (NormalizeTopicTitle(topic_title)
                              \in LoadUsedTopics(ledger_file))
    /\ lpc' = "queried"
    /\ UNCHANGED << ledger_file, saves, saved_title, saved_titles >>
    /\ UNCHANGED outsideLedger

\* clear_used_topics of src/trends_fetcher.py
ClearUsedTopics ==
    /\ ledger_file.state # "absent"
    /\ ledger_file' = NoLedger
    /\ saved_title' = None
    /\ saved_titles' = {}
    /\ lpc' = "cleared"
    /\ UNCHANGED << saves, queried_title, topic_used >>
    /\ UNCHANGED outsideLedger

NextLedger ==
    \/ SaveUsedTopic
    \/ IsTopicUsed
    \/ ClearUsedTopics

SpecLedger == InitLedger /\ [][NextLedger]_vars

\* ------------------------------------ _get_random_unused_segment alone
\* The allocator called on a file of any duration (whole seconds), which
\* ffprobe reports or fails on, and any list of used offsets.

MaxSourceDuration == 90

AllocOffsets == {0, 15, 20}

OutsideAllocIdle ==
    /\ CacheIdle /\ GenIdle /\ ScriptIdle /\ FootageIdle
    /\ SaveIdle /\ CapIdle /\ RaceIdle /\ LedgerIdle
    /\ FetchIdle /\ PickIdle /\ MainIdle /\ UploadIdle
    /\ WaitIdle

InitAlloc ==
    /\ OutsideAllocIdle
    /\ alloc_pc = "call"
    /\ alloc_actual \in 0..MaxSourceDuration
    /\ alloc_probe \in {None, Some(alloc_actual)}
    /\ alloc_used \in { SortedList(S) : S \in SUBSET AllocOffsets }
    /\ alloc_start = None

\* Lines 816-854
Allocate ==
    /\ alloc_pc = "call"
    /\ \E start \in GetRandomUnusedSegment(alloc_probe, alloc_used) :
         alloc_start' = Some(start)
    /\ alloc_pc' = "allocated"
    /\ UNCHANGED << alloc_actual, alloc_probe, alloc_used >>
    /\ UNCHANGED outsideAlloc

NextAlloc == Allocate

SpecAlloc == InitAlloc /\ [][NextAlloc]_vars

\* ------------------------------------------------- fetch_reddit_stories
OutsideFetchIdle ==
    /\ CacheIdle /\ GenIdle /\ ScriptIdle /\ FootageIdle
    /\ SaveIdle /\ CapIdle /\ RaceIdle /\ LedgerIdle
    /\ AllocIdle /\ PickIdle /\ MainIdle /\ UploadIdle
    /\ WaitIdle

\* SpecFetch: calls of RedditFetcher.fetch_reddit_stories in one process,
\* with and without the subreddit argument.  A list is modelled as the set
\* of its elements: the loop only tests the list for emptiness, picks an
\* element and removes it, and no name occurs twice.

\* config.py line 39.
MAX_RETRIES == 10

MaxFetchCalls == 2

\* Lines 22-36: the value the module-level list is created with.
REDDIT_STORY_SUBREDDITS ==
    {"tifu", "AmItheAsshole", "relationship_advice", "entitledparents",
     "MaliciousCompliance", "ProRevenge", "pettyrevenge", "confession",
     "TrueOffMyChest", "unpopularopinion", "AskReddit", "stories",
     "shortstories"}

\* The arguments of the modelled calls: none, a listed subreddit, another one.
SubredditArgs == {None, Some("tifu"), Some("nosleep")}

\* Line 65: subreddits_to_try is a new one-element list when the argument is
\* given, and otherwise the module-level list object itself (no copy).
SubredditsToTry == IF subreddit # None THEN own_list ELSE module_subreddits

\* What one turn of the loop can meet: posts that pass the filters (line 126),
\* no suitable post (129), a response of another shape (132), a
\* RequestException from get or raise_for_status (134), any other exception
\* such as a body that is not JSON (145).
FetchOutcomes == {"stories", "no_stories", "unexpected_format",
                  "request_exception", "exception"}

InitFetch ==
    /\ OutsideFetchIdle
    /\ fetch_pc = "idle"
    /\ module_subreddits = REDDIT_STORY_SUBREDDITS
    /\ subreddit = None
    /\ own_list = {}
    /\ fetch_retry = 0
    /\ found_stories = FALSE
    /\ fetch_calls = 0

\* Lines 61-65: a call starts.
FetchRedditStories ==
    /\ fetch_pc \in {"idle", "returned"}
    /\ fetch_calls < MaxFetchCalls
    /\ \E arg \in SubredditArgs :
         /\ subreddit' = arg
         /\ own_list' = IF arg # None THEN {arg[1]} ELSE {}
    /\ fetch_retry' = 0
    /\ found_stories' = FALSE
    /\ fetch_calls' = fetch_calls + 1
    /\ fetch_pc' = "loop"
    /\ UNCHANGED module_subreddits
    /\ UNCHANGED outsideFetch

\* Lines 67-149: one turn of the while loop.  Line 70 picks any element
\* (the only one when there is one), line 71 removes it from the list that
\* subreddits_to_try names, and the request ends in one of FetchOutcomes.
FetchTurn ==
    /\ fetch_pc = "loop"
    /\ fetch_retry < MAX_RETRIES
    /\ SubredditsToTry # {}
    /\ \E current_subreddit \in SubredditsToTry, outcome \in FetchOutcomes :
         LET remaining == SubredditsToTry \ {current_subreddit}
             retry == fetch_retry + 1
         IN  /\ IF subreddit # None
                THEN /\ own_list' = remaining
                     /\ UNCHANGED module_subreddits
                ELSE /\ module_subreddits' = remaining
                     /\ UNCHANGED own_list
             /\ CASE outcome = "stories" ->
                       /\ found_stories' = TRUE
                       /\ fetch_pc' = "returned"
                       /\ UNCHANGED fetch_retry
                  [] outcome \in {"no_stories", "unexpected_format"} ->
                       UNCHANGED << found_stories, fetch_pc, fetch_retry >>
                  [] outcome = "request_exception" ->
                       /\ fetch_retry' = IF retry >= MAX_RETRIES /\ remaining # {}
                                         THEN 0 ELSE retry
                       /\ fetch_pc' = IF retry >= MAX_RETRIES /\ remaining = {}
                                      THEN "returned" ELSE "loop"
                       /\ UNCHANGED found_stories
                  [] outcome = "exception" ->
                       /\ fetch_pc' = IF remaining # {} THEN "loop" ELSE "returned"
                       /\ UNCHANGED << found_stories, fetch_retry >>
    /\ UNCHANGED << subreddit, fetch_calls >>
    /\ UNCHANGED outsideFetch

\* Lines 67, 151-152: the loop condition fails and the call returns the
\* empty list.
FetchGiveUp ==
    /\ fetch_pc = "loop"
    /\ ~(fetch_retry < MAX_RETRIES /\ SubredditsToTry # {})
    /\ fetch_pc' = "returned"
    /\ UNCHANGED << module_subreddits, subreddit, own_list, fetch_retry,
                    found_stories, fetch_calls >>
    /\ UNCHANGED outsideFetch

NextFetch == FetchRedditStories \/ FetchTurn \/ FetchGiveUp

SpecFetch == InitFetch /\ [][NextFetch]_vars

\* --------------------------------------------- get_reddit_story_for_video
\* SpecPick: one call of RedditFetcher.get_reddit_story_for_video on any
\* fetched list of up to MaxStories stories and any ledger file.  A story is
\* its title and its score, the two fields the selection reads.
OutsidePickIdle ==
    /\ CacheIdle /\ GenIdle /\ ScriptIdle /\ FootageIdle
    /\ SaveIdle /\ CapIdle /\ RaceIdle /\ LedgerIdle
    /\ AllocIdle /\ FetchIdle /\ MainIdle /\ UploadIdle
    /\ WaitIdle

MaxStories == 3

\* Titles of fetched posts: none, one in the ledger's form, one that differs
\* from it in case and trailing blank, another one.
StoryTitles == { << >>, << "a" >>, << "A", " " >>, << "b" >> }

StoryScores == {1, 2}

Stories == [title : StoryTitles, score : StoryScores]

FetchedLists == UNION { [1..n -> Stories] : n \in 0..MaxStories }

\* used_topics.json before the call: absent, unreadable, or holding any set of
\* the normalised titles
LedgerFiles ==
    {NoLedger, [state |-> "corrupt", topics |-> {}]}
    \cup { [state |-> "ok", topics |-> T] : T \in SUBSET { << "a" >>, << "b" >> } }

RECURSIVE InsertAscending(_, _)
InsertAscending(sorted, story) ==
    IF sorted = << >> THEN << story >>
    ELSE IF Head(sorted).score <= story.score
         THEN << Head(sorted) >> \o InsertAscending(Tail(sorted), story)
         ELSE << story >> \o sorted

RECURSIVE SortByScoreAscending(_)
SortByScoreAscending(list) ==
    IF list = << >> THEN << >>
    ELSE InsertAscending(SortByScoreAscending(SubSeq(list, 1, Len(list) - 1)),
                         list[Len(list)])

\* where story goes in a list sorted by falling score: after every story of
\* the same or a higher score
RECURSIVE InsertByScore(_, _)
InsertByScore(sorted, story) ==
    IF sorted = << >> THEN << story >>
    ELSE IF Head(sorted).score >= story.score
         THEN << Head(sorted) >> \o InsertByScore(Tail(sorted), story)
         ELSE << story >> \o sorted

\* Line 209: stories.sort(key=score, reverse=True), a stable sort: stories of
\* equal score keep the order of the fetch.
RECURSIVE SortByScore(_)
SortByScore(list) ==
    IF list = << >> THEN << >>
    ELSE InsertByScore(SortByScore(SubSeq(list, 1, Len(list) - 1)),
                       list[Len(list)])

\* _is_topic_used (lines 184-188) as a function of the file
TopicInLedger(file, topic_title) ==
    NormalizeTopicTitle(topic_title) \in LoadUsedTopics(file)

\* Lines 212-219: the first story of the sorted list with a non-empty title
\* that _is_topic_used rejects, or None.
RECURSIVE FirstUnusedStory(_, _)
FirstUnusedStory(list, file) ==
    IF list = << >> THEN None
    ELSE IF Head(list).title # << >> /\ ~TopicInLedger(file, Head(list).title)
         THEN Some(Head(list))
         ELSE FirstUnusedStory(Tail(list), file)

\* Lines 205-230 on the sorted list: the first unused story, else the top
\* one; None for an empty fetch.
SelectStory(list, file) ==
    IF list = << >> THEN None
    ELSE IF FirstUnusedStory(list, file) # None
         THEN FirstUnusedStory(list, file)
         ELSE Some(list[1])

InitPick ==
    /\ OutsidePickIdle
    /\ pick_pc = "call"
    /\ used_topics_file \in LedgerFiles
    /\ fetched = << >>
    /\ stories = << >>
    /\ selected_story = None

\* Lines 203-252: the whole call; the fetch returns any list.
GetRedditStoryForVideo ==
    /\ pick_pc = "call"
    /\ \E list \in FetchedLists :
         /\ fetched' = list
         /\ stories' = IF list = << >> THEN list ELSE SortByScore(list)
         /\ selected_story' = IF list = << >> THEN None
                              ELSE SelectStory(SortByScore(list), used_topics_file)
    /\ pick_pc' = "returned"
    /\ UNCHANGED used_topics_file
    /\ UNCHANGED outsidePick

NextPick == GetRedditStoryForVideo

SpecPick == InitPick /\ [][NextPick]_vars

\* -------------------------------------------------------------------- main
\* SpecMain: one run of main from the story fetch to its end, with any
\* arguments, any ledger file and any outcome of each step.
OutsideMainIdle ==
    /\ CacheIdle /\ GenIdle /\ ScriptIdle /\ FootageIdle
    /\ SaveIdle /\ CapIdle /\ RaceIdle /\ LedgerIdle
    /\ AllocIdle /\ FetchIdle /\ PickIdle /\ UploadIdle
    /\ WaitIdle

\* The ways a run ends: the return of line 215, the normal end after line
\* 297, and the sys.exit calls of lines 171, 252, 261/265, 300 and 313.
MainEnds == {"dry_run_return", "success", "exit_no_story",
             "exit_generation_failed", "exit_no_video_file",
             "exit_upload_failed", "exit_error"}

\* the write of _save_used_topic (reddit_fetcher.py lines 167-178) as a
\* function of the file it finds
SavedTopicsFile(file, topic_title, outcome) ==
    CASE outcome = "ok" ->
             [state |-> "ok",
              topics |-> LoadUsedTopics(file) \cup {NormalizeTopicTitle(topic_title)}]
      [] outcome = "write_failed" -> [state |-> "corrupt", topics |-> {}]
      [] OTHER -> file

MarksTopicUsedAlways(video_id, topic_title) == topic_title # << >>

\* Lines 282-286: the topic is saved when upload_video returned an id and the
\* title is not empty.
MarksTopicUsed(video_id, topic_title) == video_id # None /\ topic_title # << >>

InitMain ==
    /\ OutsideMainIdle
    /\ main_pc = "fetch"
    /\ dry_run \in BOOLEAN
    /\ skip_video_generation \in BOOLEAN
    /\ trend_data = None
    /\ upload_result = None
    /\ topics_file \in LedgerFiles
    /\ topics_file_before = topics_file

\* Lines 167-182: the story is fetched and looked up in the ledger; the
\* lookup only reads the file.
MainFetchStory ==
    /\ main_pc = "fetch"
    /\ \E story \in {None} \cup { Some(t) : t \in StoryTitles } :
         /\ trend_data' = story
         /\ main_pc' = IF story = None THEN "exit_no_story" ELSE "prepare"
    /\ UNCHANGED << dry_run, skip_video_generation, upload_result,
                    topics_file, topics_file_before >>
    /\ UNCHANGED outsideMain

\* Lines 184-215: script and metadata; a dry run returns here.  An exception
\* in either step ends the run at line 313.
MainPrepare ==
    /\ main_pc = "prepare"
    /\ \E raised \in BOOLEAN :
         main_pc' = IF raised THEN "exit_error"
                    ELSE IF dry_run THEN "dry_run_return"
                    ELSE "video"
    /\ UNCHANGED << dry_run, skip_video_generation, trend_data, upload_result,
                    topics_file, topics_file_before >>
    /\ UNCHANGED outsideMain

\* Lines 217-268: the video is generated, or the given file is taken.
MainVideo ==
    /\ main_pc = "video"
    /\ \E video_ready \in BOOLEAN, raised \in BOOLEAN :
         main_pc' = IF raised THEN "exit_error"
                    ELSE IF video_ready THEN "upload"
                    ELSE IF skip_video_generation THEN "exit_no_video_file"
                    ELSE "exit_generation_failed"
    /\ UNCHANGED << dry_run, skip_video_generation, trend_data, upload_result,
                    topics_file, topics_file_before >>
    /\ UNCHANGED outsideMain

\* Lines 275-300: the upload, and after it the save of the topic.
MainUploadVideo ==
    /\ main_pc = "upload"
    /\ \E video_id \in {None, Some("id")}, raised \in BOOLEAN,
          outcome \in LedgerWriteOutcomes :
         IF raised
         THEN /\ main_pc' = "exit_error"
              /\ UNCHANGED << upload_result, topics_file >>
         ELSE /\ upload_result' = video_id
              /\ topics_file' =
                     IF MarksTopicUsed(video_id, trend_data[1])
                     THEN SavedTopicsFile(topics_file, trend_data[1], outcome)
                     ELSE topics_file
              /\ main_pc' = IF video_id # None THEN "success"
                            ELSE "exit_upload_failed"
    /\ UNCHANGED << dry_run, skip_video_generation, trend_data,
                    topics_file_before >>
    /\ UNCHANGED outsideMain

NextMain == MainFetchStory \/ MainPrepare \/ MainVideo \/ MainUploadVideo

SpecMain == InitMain /\ [][NextMain]_vars

\* -------------------------------------------------------- _resumable_upload
\* SpecUpload: one call of YouTubeUploader._resumable_upload, one action per
\* turn of its loop.  The loop is straight-line code with a finite sleep, so
\* a turn that can run does run: weak fairness of the turn.
OutsideUploadIdle ==
    /\ CacheIdle /\ GenIdle /\ ScriptIdle /\ FootageIdle
    /\ SaveIdle /\ CapIdle /\ RaceIdle /\ LedgerIdle
    /\ AllocIdle /\ FetchIdle /\ PickIdle /\ MainIdle
    /\ WaitIdle

MaxChunks == 2

\* config.py line 40.
RETRIABLE_STATUS_CODES == {500, 502, 503, 504}

\* The HttpError statuses the model raises: the retriable ones, 403, and two
\* others.
HttpStatuses == RETRIABLE_STATUS_CODES \cup {400, 403, 404}

\* How a next_chunk call ends: a response with or without an id, no response
\* yet (a part of the file was sent), an HttpError, one of
\* RETRIABLE_EXCEPTIONS (lines 53-58), any other exception.
ChunkOutcomes ==
    { [kind |-> k, status |-> 0] :
        k \in {"id", "no_id", "chunk", "retriable_exception", "other_exception"} }
    \cup { [kind |-> "http_error", status |-> st] : st \in HttpStatuses }

\* the outcomes that are errors
ChunkErrors ==
    { o \in ChunkOutcomes :
        o.kind \in {"http_error", "retriable_exception", "other_exception"} }

\* Lines 251, 263: an HttpError of status 403
Forbidden(outcome) == outcome.kind = "http_error" /\ outcome.status = 403

\* Lines 265, 271-272: the errors after which error is set
Retriable(outcome) ==
    \/ outcome.kind = "http_error" /\ outcome.status \in RETRIABLE_STATUS_CODES
    \/ outcome.kind = "retriable_exception"

GivesUpLate(retry) == retry > MAX_RETRIES + 1

\* Line 278
GivesUp(retry) == retry > MAX_RETRIES

InitUpload ==
    /\ OutsideUploadIdle
    /\ upload_pc = "loop"
    /\ upload_retry = 0
    /\ chunks_sent = 0
    /\ last_outcome = NoOutcome
    /\ upload_return = None
    /\ retries_made = 0

\* Lines 191-286: one turn of the loop.
UploadTurn ==
    /\ upload_pc = "loop"
    /\ \E outcome \in ChunkOutcomes :
         /\ outcome.kind = "chunk" => chunks_sent < MaxChunks
         /\ last_outcome' = outcome
         /\ retries_made' = IF last_outcome \in ChunkErrors
                            THEN retries_made + 1 ELSE retries_made
         /\ chunks_sent' = IF outcome.kind = "chunk" THEN chunks_sent + 1 ELSE chunks_sent
         /\ CASE outcome.kind = "id" ->
                   /\ upload_return' = Some("id")
                   /\ upload_pc' = "returned"
                   /\ UNCHANGED upload_retry
              [] outcome.kind = "no_id" \/ Forbidden(outcome) ->
                   /\ upload_return' = None
                   /\ upload_pc' = "returned"
                   /\ UNCHANGED upload_retry
              [] outcome.kind = "chunk" ->
                   UNCHANGED << upload_return, upload_pc, upload_retry >>
              [] Retriable(outcome) ->
                   /\ upload_retry' = upload_retry + 1
                   /\ upload_pc' = IF GivesUp(upload_retry + 1)
                                   THEN "returned" ELSE "loop"
                   /\ UNCHANGED upload_return
              [] OTHER ->
                   /\ upload_pc' = "raised"
                   /\ UNCHANGED << upload_return, upload_retry >>
    /\ UNCHANGED outsideUpload

NextUpload == UploadTurn

SpecUpload == InitUpload /\ [][NextUpload]_vars /\ WF_vars(UploadTurn)

\* ----------------------------------------------------------- wait_for_video
\* SpecWait: one call of VideoGenerator.wait_for_video, one action per turn
\* of its loop and one for the check after the loop.  Time is counted in
\* seconds; a status check takes one of CheckDurations and the sleep of line
\* 1531 takes check_interval.  The function is sequential code, so a turn
\* that can run does run: weak fairness of both actions.
OutsideWaitIdle ==
    /\ CacheIdle /\ GenIdle /\ ScriptIdle /\ FootageIdle
    /\ SaveIdle /\ CapIdle /\ RaceIdle /\ LedgerIdle
    /\ AllocIdle /\ FetchIdle /\ PickIdle /\ MainIdle
    /\ UploadIdle

\* config.py line 49.
VIDEO_GENERATION_TIMEOUT == 900

\* Line 1455.
check_interval == 10

\* The timeout argument: not given, or a number of seconds.
TimeoutArgs == {None, Some(10), Some(25)}

\* Line 1453: timeout or VIDEO_GENERATION_TIMEOUT
Timeout(arg) == IF arg = None \/ arg = Some(0) THEN VIDEO_GENERATION_TIMEOUT ELSE arg[1]

\* how long a check_video_status call takes
CheckDurations == {0, 5}

\* The status strings of a 200 answer; "absent" stands for an answer without
\* the key.
RawStatuses == {"completed", "COMPLETED", "processing", "failed", "error", "absent"}

\* The answers to the status request: 200 with a status and with or without
\* a URL, another HTTP status, an exception (code 0 with status "exception").
CheckResponses ==
    { [code |-> 200, status |-> st, has_url |-> u] : st \in RawStatuses, u \in BOOLEAN }
    \cup { [code |-> 500, status |-> "", has_url |-> FALSE],
           [code |-> 0, status |-> "exception", has_url |-> FALSE] }

CheckVideoStatusLenient(response) ==
    IF response.code = 200
    THEN [status |-> response.status, has_url |-> response.has_url]
    ELSE [status |-> "absent", has_url |-> FALSE]

\* check_video_status (lines 1414-1440): the data of a 200 answer, and
\* {"status": "error"} for any other answer and for an exception.
CheckVideoStatus(response) ==
    IF response.code = 200
    THEN [status |-> response.status, has_url |-> response.has_url]
    ELSE [status |-> "error", has_url |-> FALSE]

\* Lines 1467 and 1536: status_data.get("status", "unknown").lower()
StatusOf(data) ==
    CASE data.status = "absent" -> "unknown"
      [] data.status = "COMPLETED" -> "completed"
      [] OTHER -> data.status

InTimeInclusive(elapsed, timeout) == elapsed <= timeout

\* Line 1462: the loop condition
InTime(elapsed, timeout) == elapsed < timeout

InitWait ==
    /\ OutsideWaitIdle
    /\ wait_pc = "loop"
    /\ wait_timeout \in { Timeout(arg) : arg \in TimeoutArgs }
    /\ wait_elapsed = 0
    /\ last_response = NoCheck
    /\ status_data = NoStatusData
    /\ polled_at = None
    /\ final_checks = 0
    /\ wait_return = None

\* Lines 1462-1531: one turn of the loop: a status check, then a return or
\* the sleep.
WaitPoll ==
    /\ wait_pc = "loop"
    /\ InTime(wait_elapsed, wait_timeout)
    /\ \E response \in CheckResponses, took \in CheckDurations :
         LET data == CheckVideoStatus(response)
         IN  /\ last_response' = response
             /\ status_data' = data
             /\ polled_at' = Some(wait_elapsed)
             /\ CASE StatusOf(data) = "completed" ->
                       /\ wait_return' = IF data.has_url THEN Some("url") ELSE None
                       /\ wait_pc' = "returned"
                       /\ wait_elapsed' = wait_elapsed + took
                  [] StatusOf(data) \in {"failed", "error"} ->
                       /\ wait_return' = None
                       /\ wait_pc' = "returned"
                       /\ wait_elapsed' = wait_elapsed + took
                  [] OTHER ->
                       /\ wait_elapsed' = wait_elapsed + took + check_interval
                       /\ UNCHANGED << wait_return, wait_pc >>
    /\ UNCHANGED << wait_timeout, final_checks >>
    /\ UNCHANGED outsideWait

\* Lines 1533-1546: the loop condition fails; one more status check, and the
\* return.
WaitFinalCheck ==
    /\ wait_pc = "loop"
    /\ ~InTime(wait_elapsed, wait_timeout)
    /\ \E response \in CheckResponses, took \in CheckDurations :
         LET data == CheckVideoStatus(response)
         IN  /\ last_response' = response
             /\ status_data' = data
             /\ wait_return' = IF StatusOf(data) = "completed" /\ data.has_url
                               THEN Some("url") ELSE None
             /\ wait_elapsed' = wait_elapsed + took
    /\ final_checks' = final_checks + 1
    /\ wait_pc' = "returned"
    /\ UNCHANGED << wait_timeout, polled_at >>
    /\ UNCHANGED outsideWait

NextWait == WaitPoll \/ WaitFinalCheck

SpecWait ==
    InitWait /\ [][NextWait]_vars /\ WF_vars(WaitPoll) /\ WF_vars(WaitFinalCheck)

\* ---------------------------------------------------------------- claims
CachedPcs == {"cached_select", "cached_trim", "cached_save", "cached_mute",
              "cached_upload"}

PersistedOffsets == IF sidecar = None THEN {} ELSE UsedSet(sidecar[1].used_segments)

\* The full grid as the allocator's contract words it: min_start..max_start in
\* 5-second steps, min_start 15 when the range permits, offset 0 alone when the
\* file is no longer than the segment.
InFullGrid(s, duration) ==
    LET hi == duration - 59
        lo == IF hi >= 15 THEN 15 ELSE 0
    IN  IF hi <= 0 THEN s = 0
        ELSE s >= lo /\ s <= hi /\ (s - lo) % 5 = 0

FullGrid(duration) == { s \in 0..duration : InFullGrid(s, duration) }

\* C1: against one cached file with K grid offsets, every allocation made
\* while fewer than K allocations happened before returns an offset that no
\* earlier allocation returned.
NoRepeatWhilePossible ==
    cacheVideo # None =>
        \A i \in DOMAIN allocHist :
            (i - 1 < Cardinality(FullGrid(cacheVideo[1]))) =>
                \A j \in 1..(i - 1) : allocHist[j] # allocHist[i]

\* C2: once an offset is chosen it is in the persisted used_segments before
\* the trim, mute or upload step runs, and it is still recorded when the run
\* has ended.
PersistedAtSelection ==
    (/\ pc \in {"cached_trim", "cached_mute", "cached_upload", "fresh_trim",
                "fresh_mute", "fresh_upload", "done"}
     /\ segment_start # None)
        => segment_start[1] \in PersistedOffsets

\* C3: every save of the sidecar writes a superset of the offsets persisted
\* before it.
UsedOffsetsOnlyGrow ==
    [][ (sidecar # None /\ sidecar' # None)
            => UsedSet(sidecar[1].used_segments) \subseteq UsedSet(sidecar'[1].used_segments) ]_vars

\* C4: no step of the pipeline removes or replaces the full-length media file
\* of an existing cache entry, deletes its sidecar or drops offsets from it.
CacheEntryIntact ==
    [][ (/\ sidecar # None
         /\ sidecar[1].video_path = CachePath
         /\ cacheVideo # None
         /\ cacheVideo[1] > 65)
            => /\ cacheVideo' = cacheVideo
               /\ sidecar' # None
               /\ UsedSet(sidecar[1].used_segments) \subseteq UsedSet(sidecar'[1].used_segments) ]_vars

\* C5: a sidecar that has just been written names a media file that exists
\* and is longer than the sanity threshold.
NoPartialCacheEntry ==
    pc \in {"cached_mute", "fresh_trim"} =>
        /\ sidecar # None
        /\ sidecar[1].video_path = CachePath
        /\ cacheVideo # None
        /\ cacheVideo[1] > 65

\* C6: once every grid offset of the cached file is used, the allocation still
\* returns a member of the full grid and the run goes on to clip it.
Exhausted == cacheVideo # None /\ FullGrid(cacheVideo[1]) \subseteq UsedSet(used_segments)

CacheLoadSelfHeals ==
    [][ (pc \in {"idle", "done"} /\ runs' = runs + 1 /\ sidecar # None /\ cacheVideo = None)
            => /\ cached_info' = None
               /\ pc' = "download" \/ (pc' = "done" /\ asset_id' = None) ]_vars

CacheLoadSelfHealsWitness ==
    /\ pc = "download"
    /\ fetches = 0
    /\ sidecar # None
    /\ cacheVideo = None
    /\ cached_info = None

\* C10: a truncated download is fetched again once; when the second fetch
\* fails or is truncated too, the run returns no asset, allocates no segment
\* and creates no cache entry.
SecondFetchBad == redownloaded /\ (cacheVideo = None \/ cacheVideo[1] <= 65)

TruncatedFetchGivesUp ==
    /\ fetches <= 2
    /\ SecondFetchBad =>
        /\ pc \in {"fresh_select", "done"}
        /\ segment_start = None
        /\ sidecar = None
        /\ pc = "done" => asset_id = None

\* C11: every clip uploaded as background, on the cached and on the fresh
\* path, is the output of a successful mute step; a clip whose mute step
\* failed is never uploaded.  (A run that ends with an asset identifier has
\* uploaded the file named by downloaded_path.)
MutedBeforeUpload ==
    (pc = "done" /\ asset_id # None) => downloaded_path = MutedPath

\* ------------------------------------------------------- the hard cap
CapLimit == MaxDuration * 10 + CapTolerance

\* C12: whenever main hands a video to the uploader, _ensure_under_duration
\* has been applied to that file during the run, on every path by which
\* generate_video_from_trend returns a video path.
CapBeforeUpload ==
    uploaded_video # None => uploaded_video[1].path \in cap_calls

CapFailureFatal ==
    cap_log # None =>
        LET l == cap_log[1]
            over == l.before[OutputPath][1] > CapLimit
            uncapped == \/ l.after[OutputPath] = None
                        \/ l.after[OutputPath][1] > CapLimit
        IN  (over /\ uncapped) => (result_path = NoPath /\ uploaded_video = None)

\* ------------------------------------------------------ the script budget
ReturnedWords == Words(returned[1].sents)

\* C15: when the assembled draft has at least min_words (140) words, the
\* script returned by the deterministic path has between 140 and 175 words,
\* the trimmed scripts included.
WordCountInvariant ==
    (/\ spc = "returned"
     /\ via \in {"as_is", "trimmed"}
     /\ Words(draft.sents) >= MinWords)
        => (ReturnedWords >= MinWords /\ ReturnedWords <= MaxWords)

Trimmed == spc = "returned" /\ via \in {"trimmed", "ai_trimmed"}
Closer == draft.sents[Len(draft.sents)]

\* C16: whenever the too-long branch has trimmed a draft, on the AI path or
\* on the deterministic path, the last sentence of the untrimmed draft is
\* the final sentence of the returned script.
CloserPreserved ==
    Trimmed =>
        LET out == returned[1].sents
        IN  out # << >> /\ out[Len(out)] = Closer

\* C17: the script trimmed by the deterministic path is a prefix of the
\* draft's sentence list, whole sentences in their order, followed by the
\* draft's last sentence, and has at most max_words (175) words.
TrimKeepsPrefixAndCloser ==
    (spc = "returned" /\ via = "trimmed") =>
        LET out == returned[1].sents
        IN  /\ \E k \in 0..(Len(draft.sents) - 1) :
                  out = Append(SubSeq(draft.sents, 1, k), Closer)
            /\ Words(out) <= MaxWords

\* C18: when the draft is below min_words, the returned script keeps every
\* sentence of the draft in order, appends sentences of the template bank,
\* ends with the resolution sentence and contains it exactly once.
ExpansionShape ==
    (spc = "returned" /\ via = "expanded") =>
        LET out == returned[1].sents
            src == draft.sents
            closure_sentence == Closure(smoking)
        IN  /\ Len(out) > Len(src)
            /\ SubSeq(out, 1, Len(src)) = src
            /\ \A i \in (Len(src) + 1)..Len(out) : out[i] \in Range(Bank(smoking))
            /\ out[Len(out)] = closure_sentence
            /\ Cardinality({ i \in DOMAIN out : out[i] = closure_sentence }) = 1

\* C19: whenever the title starts with "I " and has at most 18 words, the
\* returned script, from the AI path or the deterministic path, has that
\* title as its first sentence.
HookVerbatim ==
    (spc = "returned" /\ Qualifies(title)) =>
        /\ returned[1].sents # << >>
        /\ returned[1].sents[1] = TitleText(title)

\* C20: every script returned has at least one word, whatever the title and
\* the description are and whether or not the AI stage gave anything; with
\* an empty title and an empty story text it is the generic sentence.
NeverReturnsNothing ==
    spc = "returned" =>
        /\ ReturnedWords >= 1
        /\ (title.kind = "empty" /\ description = << >>) =>
               returned[1] = Script(<< GenericText >>, ".")

\* C21: a script of the AI stage is returned only with a final word count
\* of min_words (140) to max_words (175); every other result (the generator
\* gave nothing or raised, or the script was below min_words) comes from a
\* return statement of the deterministic extraction.
AiNarrativeChain ==
    spc = "returned" =>
        IF via \in {"ai", "ai_trimmed"}
        THEN ReturnedWords >= MinWords /\ ReturnedWords <= MaxWords
        ELSE via \in {"generic", "title", "expanded", "trimmed", "as_is"}

\* C22: every script returned, on every return path (generic sentence, title
\* fallback, expanded, trimmed, as it is, AI stage), ends with ".", "!" or "?".
FinalPunctuation ==
    spc = "returned" => returned[1].end \in {".", "!", "?"}

\* the first background available, in the order video asset, static image,
\* solid colour
FirstAvailable ==
    IF video_asset_id # None THEN "video"
    ELSE IF background_image_url # None THEN "image"
    ELSE "color"

BackgroundRejectionFallThrough ==
    (/\ fpc = "done"
     /\ posted[1] = {"video"}
     /\ error_data.status = 400
     /\ error_data.video_bg
     /\ ~error_data.voice
     /\ created_video_id = None)
        => /\ posted[Len(posted)] = {"color"}
           /\ background_image_url # None => posted[2] = {"image"}

\* C24: if the process dies at any point of _save_cached_video_info, the
\* sidecar on disk is the complete previous content or the complete new
\* content, never an empty or truncated file.
SaveCrashSafe ==
    save_pc = "crashed" => (info_file = previous_file \/ IsComplete(info_file))

\* the complete capped version of the original
CappedVersion == WholeFile(Min(original[1].duration, MaxDuration * 10))

\* C25: at every point of _ensure_under_duration, a crash included, the
\* file at video_path is the complete original or the complete capped
\* version; when the call returns None the original is unchanged.
CapReplacementAtomic ==
    cap_pc # "cap_idle" =>
        /\ cap_files[OutputPath] = original
           \/ (original # None /\ cap_files[OutputPath] = CappedVersion)
        /\ (cap_pc = "cap_done" /\ cap_ret = NoPath) =>
               cap_files[OutputPath] = original

CapReplacementAtomicWitness ==
    /\ cap_pc = "cap_done"
    /\ cap_ret = NoPath
    /\ probed_duration > MaxDuration * 10 + CapTolerance
    /\ cap_files[CappedPath] # None
    /\ ~cap_files[CappedPath][1].complete
    /\ cap_files[OutputPath] = original

\* C26: nothing serialises two processes on the cached-segment path: every
\* save overwrites the sidecar with the list the saving process loaded plus
\* its own offset, whatever the other process persisted since that load.
\* So their steps can interleave to a lost update (an offset one process
\* used is missing from the persisted list) or to both selecting the same
\* offset.
UnprotectedWriters ==
    [][\A p \in Procs :
          (p_pc[p] = "save" /\ p_pc'[p] = "saved") =>
              shared_sidecar' = SortedList(UsedSet(p_used_segments[p])
                                           \cup {p_segment_start[p][1]})]_vars

\* both processes saved, they used different offsets, and the offset of
\* one of them is not in the persisted list
UnprotectedWritersWitness ==
    /\ \A p \in Procs : p_pc[p] = "saved"
    /\ p_segment_start[1] # p_segment_start[2]
    /\ \E p \in Procs : p_segment_start[p][1] \notin UsedSet(shared_sidecar)

\* t without its leading and trailing blanks, by position
Core(t) ==
    LET inside == { i \in DOMAIN t : t[i] # " " }
    IN  IF inside = {} THEN << >>
        ELSE LET first == CHOOSE i \in inside : \A j \in inside : i <= j
                 last == CHOOSE i \in inside : \A j \in inside : i >= j
             IN  SubSeq(t, first, last)

\* the two characters are the same letter, in either case
SameLetter(c, d) == c = d \/ {c, d} = {"a", "A"}

\* t2 differs from t only in letter case or leading or trailing whitespace
DiffersOnlyInCaseOrBlanks(t, t2) ==
    /\ Len(Core(t)) = Len(Core(t2))
    /\ \A i \in DOMAIN Core(t) : SameLetter(Core(t)[i], Core(t2)[i])

\* lower-cased and trimmed
IsNormalized(t) ==
    /\ \A i \in DOMAIN t : t[i] # "A"
    /\ t # << >> => (t[1] # " " /\ t[Len(t)] # " ")

\* C27: every string in the used-topics ledger is lower-cased and trimmed,
\* and after _save_used_topic(t) has written the file, _is_topic_used(t2)
\* is true for every t2 that differs from t only in letter case or in
\* leading or trailing whitespace.
LedgerNormalizedRoundTrip ==
    /\ \A t \in ledger_file.topics : IsNormalized(t)
    /\ (/\ lpc = "queried"
        /\ saved_title # None
        /\ DiffersOnlyInCaseOrBlanks(saved_title[1], queried_title))
           => topic_used

LedgerNormalizedRoundTripWitness ==
    /\ lpc = "queried"
    /\ saved_title = Some(<< " ", "A", "b" >>)
    /\ queried_title = << "a", "b", " " >>
    /\ topic_used

\* C28: when the probed duration of the source is at most the segment
\* duration (59 s), _get_random_unused_segment returns 0 whatever
\* used_segments holds.
DegenerateSource ==
    (/\ alloc_pc = "allocated"
     /\ alloc_probe # None
     /\ alloc_probe[1] <= SegmentDuration)
        => alloc_start = Some(0)

DegenerateSourceWitness ==
    /\ alloc_pc = "allocated"
    /\ alloc_probe = Some(SegmentDuration)
    /\ 0 \in UsedSet(alloc_used)
    /\ alloc_start = Some(0)

\* the duration the allocator works with: the probed one, or the default
AllocDuration ==
    IF alloc_probe = None THEN DefaultProbeDuration ELSE alloc_probe[1]

OffsetsFitSource ==
    (alloc_pc = "allocated" /\ alloc_actual > SegmentDuration) =>
        /\ alloc_start[1] >= 0
        /\ alloc_start[1] + SegmentDuration <= alloc_actual

\* C37: on the too-short path of the deterministic budgeter, for every draft
\* below min_words and either template bank, the expanded script has at most
\* max_words (175) words.
ExpansionNeverOvershoots ==
    (spc = "returned" /\ via = "expanded") => ReturnedWords <= MaxWords

\* C38: once _save_used_topic(t) has written the ledger, _is_topic_used(t)
\* stays true after any later _save_used_topic calls for other topics, as
\* long as clear_used_topics is not called, also when a later load of the
\* ledger file fails.
LedgerMonotonic ==
    (lpc = "queried" /\ queried_title \in saved_titles) => topic_used

\* C39: a fetch_reddit_stories call without the subreddit argument leaves
\* the module-level list REDDIT_STORY_SUBREDDITS as it was, so that a later
\* call has the full list to try.
ModuleListUnconsumed ==
    (fetch_pc = "returned" /\ subreddit = None) =>
        module_subreddits = REDDIT_STORY_SUBREDDITS

\* the positions of the fetched stories that have a non-empty title which is
\* not in the ledger
FreshStories ==
    { i \in DOMAIN fetched :
        /\ fetched[i].title # << >>
        /\ Strip(Lower(fetched[i].title)) \notin
               (IF used_topics_file.state = "ok" THEN used_topics_file.topics ELSE {}) }

\* C32: get_reddit_story_for_video returns the highest-scored fetched story
\* whose non-empty title is not in the ledger when there is one; it returns a
\* story that is not such a one only when there is none, and then the
\* top-scored story of the fetch; it returns None only when nothing was
\* fetched.
SelectionSkipsUsed ==
    pick_pc = "returned" =>
        /\ (selected_story = None) <=> (fetched = << >>)
        /\ FreshStories # {} =>
               \E i \in FreshStories :
                   /\ selected_story = Some(fetched[i])
                   /\ \A j \in FreshStories : fetched[j].score <= fetched[i].score
        /\ (FreshStories = {} /\ fetched # << >>) =>
               \E i \in DOMAIN fetched :
                   /\ selected_story = Some(fetched[i])
                   /\ \A j \in DOMAIN fetched : fetched[j].score <= fetched[i].score

\* a call that passed over a used story of a higher score and an empty title
\* and returned a lower-scored unused one
SelectionSkipsUsedWitness ==
    /\ pick_pc = "returned"
    /\ Len(fetched) = 3
    /\ FreshStories = {1}
    /\ fetched[1].score = 1
    /\ fetched[2].score = 2 /\ fetched[2].title = << "A", " " >>
    /\ fetched[3].title = << >>
    /\ selected_story = Some(fetched[1])

\* C31: in a run of main the ledger gains the run's topic title only if
\* upload_video returned a video id; a dry run, a failed video generation and
\* a failed upload leave the ledger file as the run found it.
MarkedOnlyAfterUpload ==
    /\ topics_file # topics_file_before =>
           /\ main_pc = "success"
           /\ upload_result # None
           /\ ~dry_run
    /\ main_pc \in MainEnds \ {"success"} => topics_file = topics_file_before

\* a run that uploaded and added its title to the ledger
MarkedOnlyAfterUploadWitness ==
    /\ main_pc = "success"
    /\ upload_result # None
    /\ topics_file.state = "ok"
    /\ topics_file_before.state = "ok"
    /\ topics_file.topics \ topics_file_before.topics = { << "a" >> }
    /\ trend_data = Some(<< "A", " " >>)

\* C33: _resumable_upload calls next_chunk again after an error only when
\* the error was a retriable HTTP status or a retriable exception; it makes at
\* most MAX_RETRIES such retries and returns None after the error that
\* follows the last one; a 403 ends the call with None and any other
\* non-retriable HTTP error is raised; the loop ends.
UploadRetryBounded ==
    /\ [](/\ retries_made <= MAX_RETRIES
          /\ (retries_made > 0 /\ upload_pc = "loop") =>
                 (Retriable(last_outcome) \/ last_outcome.kind = "chunk")
          /\ (Retriable(last_outcome) /\ upload_retry > MAX_RETRIES) =>
                 (upload_pc = "returned" /\ upload_return = None)
          /\ (last_outcome.kind = "http_error" /\ last_outcome.status = 403) =>
                 (upload_pc = "returned" /\ upload_return = None)
          /\ (/\ last_outcome.kind = "http_error"
              /\ last_outcome.status \notin RETRIABLE_STATUS_CODES \cup {403}) =>
                 upload_pc = "raised")
    /\ [][retries_made' > retries_made => Retriable(last_outcome)]_vars
    /\ <>(upload_pc # "loop")

\* a call in which every next_chunk failed with a retriable error: eleven
\* calls, ten of them retries, and None returned
UploadRetryBoundedWitness ==
    /\ upload_pc = "returned"
    /\ upload_return = None
    /\ upload_retry = MAX_RETRIES + 1
    /\ retries_made = MAX_RETRIES
    /\ chunks_sent = 0
    /\ last_outcome = [kind |-> "http_error", status |-> 503]

\* C34: wait_for_video returns a URL only when a status check reported
\* "completed" with a URL; a status check of the loop starts only while the
\* elapsed time is below the timeout; once the timeout has expired the only
\* step is one more status check followed by the return; the call ends.
WaitBoundedAndSound ==
    /\ [](/\ wait_return # None =>
                 /\ last_response.code = 200
                 /\ last_response.status \in {"completed", "COMPLETED"}
                 /\ last_response.has_url
          /\ polled_at # None => polled_at[1] < wait_timeout
          /\ final_checks <= 1
          /\ final_checks = 1 => (wait_pc = "returned" /\ wait_elapsed >= wait_timeout))
    /\ [][(wait_pc = "loop" /\ wait_elapsed >= wait_timeout) =>
              /\ final_checks' = final_checks + 1
              /\ polled_at' = polled_at
              /\ wait_pc' = "returned"]_vars
    /\ <>(wait_pc = "returned")

\* a call that polled until the timeout of 25 s had passed, checked once
\* more, found the video completed and returned its URL
WaitBoundedAndSoundWitness ==
    /\ wait_pc = "returned"
    /\ wait_timeout = 25
    /\ polled_at = Some(20)
    /\ final_checks = 1
    /\ wait_return # None

\* C35: a status check that yields "failed" or "error", the {"status":
\* "error"} of a failed status request included, makes wait_for_video return
\* None with no further status check, whether the timeout has passed or not.
FailedPollTerminal ==
    (/\ last_response # NoCheck
     /\ \/ last_response.code # 200
        \/ last_response.status \in {"failed", "error"}) =>
        (wait_pc = "returned" /\ wait_return = None)

\* a status request answered with HTTP 500 in the second turn of the loop,
\* before the timeout: the call has returned None
FailedPollTerminalWitness ==
    /\ wait_pc = "returned"
    /\ wait_return = None
    /\ last_response.code = 500
    /\ polled_at = Some(10)
    /\ wait_timeout = VIDEO_GENERATION_TIMEOUT
    /\ final_checks = 0

====
